---- MODULE Spec2Model ----
(***************************************************************************)
(* Model of lfp_build: the manifest accessor and the manifest tree        *)
(* (pyproject.py), the process runner (util.py), the scaffolder            *)
(* (workspace_create.py), the README updater (readme.py), the workspace    *)
(* metadata (workspace.py) and the synchronizer (workspace_sync).          *)
(*                                                                         *)
(* Each subsystem has its own specification over the shared variable       *)
(* tuple; the variables of the subsystems a specification does not drive   *)
(* stay at their initial values.                                           *)
(***************************************************************************)
EXTENDS Integers, Sequences, FiniteSets, TLC

(***************************************************************************)
(* TOML values.  A value is a scalar, a table or an array.  A container    *)
(* holds a sequence of entries; the entries of an array carry the key "-". *)
(***************************************************************************)

\* Largest number of nodes (the document root included) of a generated document.
MaxNodes == 4

\* Keys of tables, in their canonical order.
KeySeq == <<"a", "b">>

Keys == {KeySeq[i] : i \in 1..Len(KeySeq)}

\* Scalar TOML values: the integer 0, the boolean false, the empty string
\* and a non-empty string.
Scalars == {"zero", "false", "emptystr", "str"}

\* Python truthiness of a scalar (bool(0), bool(False), bool("") are False).
Truthy(s) == s = "str"

Scalar(s) == [kind |-> "scalar", val |-> s, items |-> <<>>]

Entry(k, v) == [key |-> k, value |-> v]

Table(es) == [kind |-> "table", val |-> "", items |-> es]

Array(es) == [kind |-> "array", val |-> "", items |-> es]

IsMapping(v) == v.kind = "table"

IsCollection(v) == v.kind \in {"table", "array"}

\* Strictly increasing sequences of n indexes into KeySeq.
RECURSIVE IncSeqs(_, _)
IncSeqs(n, from) ==
    IF n = 0 THEN {<<>>}
    ELSE UNION {{<<i>> \o r : r \in IncSeqs(n - 1, i + 1)} : i \in from..Len(KeySeq)}

RECURSIVE ValuesOfSize(_), ChildSeqs(_)
\* Sequences of values whose sizes add up to n.
ChildSeqs(n) ==
    IF n = 0 THEN {<<>>}
    ELSE UNION {{<<v>> \o r : v \in ValuesOfSize(k), r \in ChildSeqs(n - k)} : k \in 1..n}

TablesOver(cs) ==
    {Table([i \in 1..Len(cs) |-> Entry(KeySeq[ks[i]], cs[i])]) : ks \in IncSeqs(Len(cs), 1)}

ArrayOver(cs) == Array([i \in 1..Len(cs) |-> Entry("-", cs[i])])

\* All values of exactly n nodes.
ValuesOfSize(n) ==
    IF n = 1
    THEN {Scalar(s) : s \in Scalars} \cup {Table(<<>>), Array(<<>>)}
    ELSE UNION {TablesOver(cs) \cup {ArrayOver(cs)} : cs \in ChildSeqs(n - 1)}

\* All documents (root tables) of at most n nodes.
DocsUpTo(n) == UNION {{v \in ValuesOfSize(k) : v.kind = "table"} : k \in 1..n}

Docs == DocsUpTo(MaxNodes)

(***************************************************************************)
(* pyproject._prune                                                        *)
(***************************************************************************)

\* _is_empty as a truthiness test (not d), the slip the type test avoids.
IsEmptyFalsy(d) ==
    IF d.kind = "scalar" THEN ~Truthy(d.val) ELSE Len(d.items) = 0

\* _prune._is_empty: a non-string Collection or Mapping of length 0.
IsEmpty(d) ==
    IF IsCollection(d) THEN Len(d.items) = 0 ELSE FALSE

RemoveAt(s, i) == [j \in 1..(Len(s) - 1) |-> IF j < i THEN s[j] ELSE s[j + 1]]

\* f[1] + ... + f[n]
SeqSum(f, n) == LET RECURSIVE S(_)
                    S(i) == IF i = 0 THEN 0 ELSE f[i] + S(i - 1)
                IN  S(n)

RECURSIVE Prune(_), PruneMappingLoop(_, _), PruneCollectionLoop(_, _)

\* The Mapping branch: for k in list(data.keys()): prune data[k] in place,
\* delete it when it is empty.  i is the position of k in the current items.
PruneMappingLoop(items, i) ==
    IF i > Len(items) THEN items
    ELSE LET v == Prune(items[i].value)
         IN  IF IsEmpty(v)
             THEN PruneMappingLoop(RemoveAt(items, i), i)
             ELSE PruneMappingLoop([items EXCEPT ![i].value = v], i + 1)

\* The Collection branch: for i in range(len(data) - 1, -1, -1).
PruneCollectionLoop(items, i) ==
    IF i < 1 THEN items
    ELSE LET v == Prune(items[i].value)
         IN  IF IsEmpty(v)
             THEN PruneCollectionLoop(RemoveAt(items, i), i - 1)
             ELSE PruneCollectionLoop([items EXCEPT ![i].value = v], i - 1)

\* _prune(data); the value is data after the in-place changes.
Prune(data) ==
    IF IsMapping(data) THEN [data EXCEPT !.items = PruneMappingLoop(data.items, 1)]
    ELSE IF IsCollection(data)
         THEN [data EXCEPT !.items = PruneCollectionLoop(data.items, Len(data.items))]
         ELSE data

(***************************************************************************)
(* Tables and key paths                                                    *)
(***************************************************************************)

\* What cur_table.get(key, None) gives for a key that is not there.
Missing == [kind |-> "missing", val |-> "", items |-> <<>>]

KeyIndex(k) == CHOOSE i \in 1..Len(KeySeq) : KeySeq[i] = k

\* Position of key k in the items of table t, 0 when t has no such key.
Find(t, k) ==
    IF \E i \in 1..Len(t.items) : t.items[i].key = k
    THEN CHOOSE i \in 1..Len(t.items) : t.items[i].key = k
    ELSE 0

\* cur_table.get(key, None)
TGet(t, k) == IF Find(t, k) = 0 THEN Missing ELSE t.items[Find(t, k)].value

\* key in cur_table
TContains(t, k) == Find(t, k) # 0

\* cur_table.remove(key)
TRemove(t, k) == [t EXCEPT !.items = RemoveAt(t.items, Find(t, k))]

\* cur_table.add(key, value) / cur_table[key] = value; items stay in key order.
TPut(t, k, v) ==
    IF TContains(t, k)
    THEN [t EXCEPT !.items[Find(t, k)].value = v]
    ELSE LET n == Cardinality({i \in 1..Len(t.items) :
                                  KeyIndex(t.items[i].key) < KeyIndex(k)})
         IN  [t EXCEPT !.items =
                 SubSeq(t.items, 1, n) \o <<Entry(k, v)>>
                 \o SubSeq(t.items, n + 1, Len(t.items))]

RECURSIVE GetPath(_, _), ReplacePath(_, _, _), Size(_)

\* The value reached from t by the keys of path, Missing when the walk
\* leaves the tables.
GetPath(t, path) ==
    IF path = <<>> THEN t
    ELSE IF ~IsMapping(t) THEN Missing
         ELSE GetPath(TGet(t, Head(path)), Tail(path))

\* t with the table at path (a path of tables) replaced by v.
ReplacePath(t, path, v) ==
    IF path = <<>> THEN v
    ELSE TPut(t, Head(path), ReplacePath(TGet(t, Head(path)), Tail(path), v))

\* Number of nodes of a value.
Size(v) ==
    1 + SeqSum([i \in 1..Len(v.items) |-> Size(v.items[i].value)], Len(v.items))

(***************************************************************************)
(* Manifest files and the in-memory document                               *)
(***************************************************************************)

\* Largest number of nodes the in-memory document (or a table a caller holds)
\* grows to.
MaxDocNodes == 3

\* Longest key path handed to PyProject.table.
MaxPath == 2

\* A disk read that would exceed this count is not taken (the code reads at
\* most once between two persist calls).
MaxReads == 2

\* Layout of a manifest text: "canon" is the formatter's output, "plain" is
\* any other layout without outer whitespace, "padded" is a layout with
\* leading or trailing whitespace.
Styles == {"canon", "plain", "padded"}

Text(tree, style) == [exists |-> TRUE, tree |-> tree, style |-> style]

NoFile == [exists |-> FALSE, tree |-> Table(<<>>), style |-> "canon"]

\* self._data is None
NoData == [loaded |-> FALSE, tree |-> Table(<<>>), style |-> "canon"]

\* tomlkit.load(f): the document keeps the layout of the text it came from.
TomlLoad(text) == [loaded |-> TRUE, tree |-> text.tree, style |-> text.style]

\* tomlkit.dumps(data)
TomlDumps(data) == Text(data.tree, data.style)

\* text.strip() + "\n"
StripNl(text) ==
    [text EXCEPT !.style = IF text.style = "padded" THEN "plain" ELSE text.style]

\* _format(path), when the formatter succeeds.
Format(text) == [text EXCEPT !.style = "canon"]

NoHash == <<>>

\* _hash(path): the MD5 digest of the file's bytes (no collision among the
\* texts of the model).
Hash(text) == <<"md5", text.tree, text.style>>

\* "hash != _hash(temp_path)" decided as always true.
HashDiffersAlways(h1, h2) == TRUE

\* hash != _hash(temp_path)
HashDiffers(h1, h2) == h1 # h2

\* A finally-less persist: the document is cleared on the normal paths only.
DataAfterTryNoFinally(d, outcome) ==
    IF outcome = "format_error" THEN d ELSE NoData

\* finally: self._data = None
DataAfterTry(d, outcome) == NoData

\* "if not self._data": an empty document counts as absent.
NeedsLoadFalsy(d) == ~d.loaded \/ Len(d.tree.items) = 0

\* self._data is None
NeedsLoad(d) == ~d.loaded

\* The scalars callers assign and the manifests on disk start with.
ManifestScalars == {"zero", "str"}

\* The manifests found on disk at the start: empty, or one top-level key
\* that holds a scalar, an empty table or an empty array.
FileDocs ==
    {Table(<<>>)} \cup
    {Table(<<Entry(k, v)>>) :
        k \in Keys,
        v \in {Scalar(s) : s \in ManifestScalars} \cup {Table(<<>>), Array(<<>>)}}

KeyPaths ==
    UNION {[1..n -> Keys] : n \in 1..MaxPath}

\* What PyProject.table returns: None ("none"), the table that is part of the
\* document at path ("attached"), or a new table object that is part of no
\* document ("detached", at path of a free-standing table).
NoHandle == [status |-> "none", path |-> <<>>]

\* Some key of the path keys holds, in doc, a value that is not a table
\* (the keys before it hold tables).
MeetsNonTable(doc, keys) ==
    \E n \in 1..Len(keys) :
        /\ \A m \in 1..(n - 1) : IsMapping(GetPath(doc, SubSeq(keys, 1, m)))
        /\ GetPath(doc, SubSeq(keys, 1, n)).kind \in {"scalar", "array"}

RECURSIVE Walk(_, _, _, _, _, _)
\* The loop of PyProject.table.  cur_table is the table at path cur of doc
\* (attached) or of the free-standing table det (not attached).
Walk(doc, det, attached, cur, keys, create) ==
    IF keys = <<>>
    THEN [doc |-> doc,
          handle |-> [status |-> IF attached THEN "attached" ELSE "detached",
                      path |-> cur]]
    ELSE LET key == Head(keys)
             root == IF attached THEN doc ELSE det
             cur_table == GetPath(root, cur)
             value == TGet(cur_table, key)
         IN  IF IsMapping(value)
             THEN Walk(doc, det, attached, Append(cur, key), Tail(keys), create)
             ELSE IF ~create
                  THEN [doc |-> doc, handle |-> NoHandle]
                  ELSE IF TContains(cur_table, key)
                       THEN \* cur_table.remove(key); value is never added
                            LET root2 == ReplacePath(root, cur, TRemove(cur_table, key))
                            IN  Walk(IF attached THEN root2 ELSE doc,
                                     Table(<<>>), FALSE, <<>>, Tail(keys), create)
                       ELSE \* cur_table.add(key, value)
                            LET root2 == ReplacePath(root, cur,
                                                     TPut(cur_table, key, Table(<<>>)))
                            IN  Walk(IF attached THEN root2 ELSE doc,
                                     IF attached THEN det ELSE root2,
                                     attached, Append(cur, key), Tail(keys), create)

(***************************************************************************)
(* PyProjectTree.filter_members                                            *)
(***************************************************************************)

\* Longest list of names handed to filter_members.
MaxNames == 3

\* Member names; a tree holds some of them.
MemberNames == {"m1", "m2", "m3"}

\* The PyProject instance of member n of the workspace (an object identity).
ProjOf(n) == <<"PyProject", n>>

RootProj == <<"PyProject", "root">>

NoProj == <<"None">>

\* Sequences over S without repetition.
RECURSIVE DistinctSeqs(_)
DistinctSeqs(S) ==
    {<<>>} \cup UNION {{<<x>> \o r : r \in DistinctSeqs(S \ {x})} : x \in S}

\* A members dict: the keys in insertion order, each with its PyProject.
MembersDicts ==
    {[i \in 1..Len(ks) |-> [name |-> ks[i], proj |-> ProjOf(ks[i])]] :
        ks \in DistinctSeqs(MemberNames)}

SeqToSet(q) == {q[i] : i \in 1..Len(q)}

DictKeys(d) == [i \in 1..Len(d) |-> d[i].name]

\* name in d
DictHas(d, n) == \E i \in 1..Len(d) : d[i].name = n

\* d.get(n, None)
DictGet(d, n) ==
    IF DictHas(d, n) THEN d[CHOOSE i \in 1..Len(d) : d[i].name = n].proj ELSE NoProj

\* "if name in names" dropped from the insertion: every member of the
\* tree ends up in the copy.
KeepsMemberAlways(name, names) == TRUE

\* if name in names: members_copy[name] = member_proj
KeepsMember(name, names) == name \in SeqToSet(names)

RECURSIVE FilterLoop(_, _, _, _, _, _)
\* The loop of filter_members over [*names, *self.members.keys()], from
\* position i, with the members copied so far.
FilterLoop(all, i, members, names, required, members_copy) ==
    IF i > Len(all)
    THEN [raised |-> FALSE, missing |-> "", members |-> members_copy]
    ELSE LET name == all[i]
             member_proj == DictGet(members, name)
         IN  IF DictHas(members_copy, name)
             THEN FilterLoop(all, i + 1, members, names, required, members_copy)
             ELSE IF member_proj = NoProj
                  THEN IF required /\ name \in SeqToSet(names)
                       THEN [raised |-> TRUE, missing |-> name, members |-> <<>>]
                       ELSE FilterLoop(all, i + 1, members, names, required,
                                       members_copy)
                  ELSE IF KeepsMember(name, names)
                       THEN FilterLoop(all, i + 1, members, names, required,
                                       Append(members_copy,
                                              [name |-> name, proj |-> member_proj]))
                       ELSE FilterLoop(all, i + 1, members, names, required,
                                       members_copy)

\* filter_members(names, required) on tree t: the tree it returns, or the
\* member its ValueError names.  same tells that it returned t itself.
FilterMembers(t, names, required) ==
    IF Len(names) = 0
    THEN [raised |-> FALSE, missing |-> "", same |-> TRUE, tree |-> t]
    ELSE LET r == FilterLoop(names \o DictKeys(t.members), 1, t.members,
                             names, required, <<>>)
         IN  IF r.raised
             THEN [raised |-> TRUE, missing |-> r.missing, same |-> FALSE, tree |-> t]
             ELSE [raised |-> FALSE, missing |-> "", same |-> FALSE,
                   tree |-> [name |-> t.name, root |-> t.root,
                             filtered |-> TRUE, members |-> r.members]]

(***************************************************************************)
(* Variables                                                               *)
(***************************************************************************)
VARIABLES
    prunePc,     \* "input" before _prune ran on pruneIn, "done" after
    pruneIn,     \* the document handed to _prune
    pruneOut,    \* the document after _prune
    file,        \* the manifest on disk at PyProject.path (NoFile when absent)
    data,        \* PyProject._data (NoData when None)
    handle,      \* the table the last PyProject.table call returned
    reads,       \* number of disk reads of the manifest since the last persist call
    pcall,       \* the persist call, when it is the operation that ran last
    tcall        \* the table(create=True) call that met a non-table value, when it
                 \* is the operation that ran last: its keys and the document before

VARIABLES
    treePc,      \* "input" before filter_members ran, "done" after
    tree,        \* the PyProjectTree that filter_members is called on
    fnames,      \* the names argument
    frequired,   \* the required argument
    fresult      \* what filter_members returned or raised

VARIABLES
    gpc,         \* position of the process_start generator
    opts,        \* the options of the call: stderr mode and check
    script,      \* what the subprocess does: its writes in order, then its exit code
    ppc,         \* number of writes the subprocess has done
    pstate,      \* "none", "running", "exited" (not yet waited on) or "reaped"
    pcode,       \* the exit status of the subprocess once it has exited
    returncode,  \* proc.returncode (NoCode while None)
    stdoutPipe,  \* the lines in the stdout pipe
    stderrPipe,  \* the lines in the stderr pipe
    tstate,      \* the stderr thread: "none", "running" or "done"
    cleanup,     \* what the finally block did to the process, in order
    pending,     \* the exception in flight when the finally block was entered
    exitPath,    \* how the stream ended: "exhausted", "close", "gc", "exception"
    wasRunning,  \* proc.poll() was None at the start of the finally block
    raised,      \* the error the consumer got from the stream
    errcode,     \* the returncode that error carries (NoCode when it has none)
    yielded      \* the lines yielded to the consumer

VARIABLES
    cpc,         \* position of the create command
    cargs,       \* its arguments: name, path and project_dependency
    fs,          \* the filesystem: every existing path and what is there
    fs0,         \* the filesystem when create was called
    cerror,      \* the error create raised ("none" when it raised none)
    syncCalls    \* the calls of workspace_sync.sync made so far

VARIABLES
    rpc,         \* position of update_cmd
    rargs,       \* its arguments: filter and jobs
    readme,      \* the README file: its text as a sequence of tokens
    readme0,     \* the README file when update_cmd was called
    tasks,       \* the futures, in submission order: command and state
    outputMap,   \* output_map: for each command the task whose output it holds
    rerror       \* the error update_cmd raised ("none" when it raised none)

VARIABLES
    mcwd,        \* the current working directory of the program
    mcache,      \* the cache of _metadata: for each key its result, if any
    minv,        \* the runs of "uv workspace metadata" so far, in order
    mcalls,      \* number of calls of workspace.metadata so far
    mlast        \* the last call of workspace.metadata: argument, key, outcome

VARIABLES
    dpc,         \* "input" before pyproject.tree ran, "done" after
    dmeta,       \* the metadata argument: workspace_root and members
    dcwd,        \* the current working directory
    dgit,        \* the repository name of the origin remote (empty when none)
    dtree        \* the PyProjectTree that pyproject.tree returned

VARIABLES
    spc,         \* position of sync
    sargs,       \* its arguments: the member names and the version override
    srepo,       \* the repository: the stored baseline and whether it is dirty
    sroot,       \* the root manifest on disk
    sman,        \* the member manifests on disk, in the order of the tree
    sman0,       \* the member manifests when sync was called
    stodo,       \* the members still to synchronize
    schanged,    \* the members whose manifest content changed
    serror       \* the error sync raised ("none" when it raised none)

pruneVars == <<prunePc, pruneIn, pruneOut>>

syncVars == <<spc, sargs, srepo, sroot, sman, sman0, stodo, schanged, serror>>

discoverVars == <<dpc, dmeta, dcwd, dgit, dtree>>

metaVars == <<mcwd, mcache, minv, mcalls, mlast>>

readmeVars == <<rpc, rargs, readme, readme0, tasks, outputMap, rerror>>

createVars == <<cpc, cargs, fs, fs0, cerror, syncCalls>>

\* The variables of the commands specified after the process runner.
extVars == <<createVars, readmeVars, metaVars, discoverVars, syncVars>>

procVars == <<gpc, opts, script, ppc, pstate, pcode, returncode, stdoutPipe,
              stderrPipe, tstate, cleanup, pending, exitPath, wasRunning,
              raised, errcode, yielded>>

treeVars == <<treePc, tree, fnames, frequired, fresult>>

manifestVars == <<file, data, handle, reads, pcall, tcall>>

vars == <<pruneVars, manifestVars, treeVars, procVars, extVars>>

NoPCall ==
    [outcome |-> "none", force |-> FALSE, ret |-> NoHash,
     preFile |-> NoFile, preData |-> NoData, renamed |-> FALSE]

\* tcall when the last operation was no table(create=True) call that met a
\* non-table value on its path.
NoTCall == [keys |-> <<>>, pre |-> Table(<<>>)]

PruneIdle == prunePc = "idle" /\ pruneIn = Table(<<>>) /\ pruneOut = Table(<<>>)

ManifestIdle ==
    /\ file = NoFile
    /\ data = NoData
    /\ handle = NoHandle
    /\ reads = 0
    /\ pcall = NoPCall
    /\ tcall = NoTCall

NoTree == [name |-> "", root |-> NoProj, filtered |-> FALSE, members |-> <<>>]

NoFilterResult == [raised |-> FALSE, missing |-> "", same |-> FALSE, tree |-> NoTree]

TreeIdle ==
    /\ treePc = "idle"
    /\ tree = NoTree
    /\ fnames = <<>>
    /\ frequired = FALSE
    /\ fresult = NoFilterResult

NoArgs == [name |-> <<>>, path |-> [abs |-> FALSE, parts |-> <<>>], deps |-> <<>>]

CreateIdle ==
    /\ cpc = "idle"
    /\ cargs = NoArgs
    /\ fs = <<>>
    /\ fs0 = <<>>
    /\ cerror = "none"
    /\ syncCalls = <<>>

NoFilter == [given |-> FALSE, matches |-> {}]

ReadmeIdle ==
    /\ rpc = "idle"
    /\ rargs = [filter |-> NoFilter, jobs |-> 1]
    /\ readme = <<>>
    /\ readme0 = <<>>
    /\ tasks = <<>>
    /\ outputMap = <<>>
    /\ rerror = "none"

NoMetadata == [workspace_root |-> <<>>]

NoMetaCall ==
    [given |-> FALSE, path |-> <<>>, key |-> <<>>, invoked |-> FALSE,
     raised |-> FALSE, result |-> NoMetadata]

MetaIdle ==
    /\ mcwd = <<>>
    /\ mcache = <<>>
    /\ minv = <<>>
    /\ mcalls = 0
    /\ mlast = NoMetaCall

NoBuiltTree == [name |-> <<>>, root |-> [path |-> <<>>], members |-> <<>>]

DiscoverIdle ==
    /\ dpc = "idle"
    /\ dmeta = [workspace_root |-> <<>>, members |-> <<>>]
    /\ dcwd = <<>>
    /\ dgit = <<>>
    /\ dtree = NoBuiltTree

NoVersion == [given |-> FALSE, major |-> 0, minor |-> 0, patch |-> 0]

SyncIdle ==
    /\ spc = "idle"
    /\ sargs = [names |-> <<>>, override |-> NoVersion]
    /\ srepo = [base |-> NoVersion, dirty |-> FALSE]
    /\ sroot = NoFile
    /\ sman = <<>>
    /\ sman0 = <<>>
    /\ stodo = <<>>
    /\ schanged = {}
    /\ serror = "none"

ExtIdle == CreateIdle /\ ReadmeIdle /\ MetaIdle /\ DiscoverIdle /\ SyncIdle

\* proc.returncode is None
NoCode == 99

NoScript == [writes |-> <<>>, nl |-> TRUE, code |-> 0]

NoOpts == [mode |-> "devnull", check |-> FALSE]

ProcIdle ==
    /\ gpc = "idle"
    /\ opts = NoOpts
    /\ script = NoScript
    /\ ppc = 0
    /\ pstate = "none"
    /\ pcode = NoCode
    /\ returncode = NoCode
    /\ stdoutPipe = <<>>
    /\ stderrPipe = <<>>
    /\ tstate = "none"
    /\ cleanup = <<>>
    /\ pending = "none"
    /\ exitPath = "none"
    /\ wasRunning = FALSE
    /\ raised = "none"
    /\ errcode = NoCode
    /\ yielded = <<>>

(***************************************************************************)
(* Specification of _prune over all documents of at most MaxNodes nodes    *)
(***************************************************************************)
PruneInit ==
    /\ prunePc = "input"
    /\ pruneIn \in Docs
    /\ pruneOut = Table(<<>>)

RunPrune ==
    /\ prunePc = "input"
    /\ prunePc' = "done"
    /\ pruneOut' = Prune(pruneIn)
    /\ UNCHANGED <<pruneIn, manifestVars, treeVars, procVars, extVars>>

InitPrune == PruneInit /\ ManifestIdle /\ TreeIdle /\ ProcIdle /\ ExtIdle

NextPrune == RunPrune

SpecPrune == InitPrune /\ [][NextPrune]_vars

(***************************************************************************)
(* Specification of one PyProject instance and its manifest file           *)
(***************************************************************************)
ManifestInit ==
    /\ file \in {NoFile} \cup {Text(d, st) : d \in FileDocs, st \in Styles}
    /\ data = NoData
    /\ handle = NoHandle
    /\ reads = 0
    /\ pcall = NoPCall
    /\ tcall = NoTCall

\* The data property: the document it returns, whether it read the disk and
\* whether the read raised (the file is absent).
DataProperty ==
    IF NeedsLoad(data)
    THEN IF file.exists
         THEN [data |-> TomlLoad(file), read |-> 1, raised |-> FALSE]
         ELSE [data |-> data, read |-> 0, raised |-> TRUE]
    ELSE [data |-> data, read |-> 0, raised |-> FALSE]

\* A caller reads PyProject.data.
AccessData ==
    /\ NeedsLoad(data) => reads < MaxReads
    /\ data' = DataProperty.data
    /\ reads' = reads + DataProperty.read
    /\ pcall' = NoPCall
    /\ tcall' = NoTCall
    /\ UNCHANGED <<file, handle, pruneVars, treeVars, procVars, extVars>>

\* PyProject.table(*keys, create=create)
TableCall(keys, create) ==
    /\ NeedsLoad(data) => reads < MaxReads
    /\ LET acc == DataProperty
           w == Walk(acc.data.tree, Table(<<>>), TRUE, <<>>, keys, create)
       IN  IF acc.raised
           THEN /\ tcall' = NoTCall
                /\ handle' = NoHandle
                /\ UNCHANGED <<data, reads>>
           ELSE /\ Size(w.doc) <= MaxDocNodes
                /\ tcall' = IF create /\ MeetsNonTable(acc.data.tree, keys)
                            THEN [keys |-> keys, pre |-> acc.data.tree]
                            ELSE NoTCall
                /\ handle' = w.handle
                /\ data' = [acc.data EXCEPT !.tree = w.doc]
                /\ reads' = reads + acc.read
    /\ pcall' = NoPCall
    /\ UNCHANGED <<file, pruneVars, treeVars, procVars, extVars>>

\* A caller assigns a scalar under key in the table that table() returned.
\* An assignment to a table that no document holds changes no document.
SetItem(key, s) ==
    /\ handle.status \in {"attached", "detached"}
    /\ IF handle.status = "attached"
       THEN LET t == GetPath(data.tree, handle.path)
                doc == ReplacePath(data.tree, handle.path, TPut(t, key, Scalar(s)))
            IN  /\ Size(doc) <= MaxDocNodes
                /\ data' = [data EXCEPT !.tree = doc]
       ELSE UNCHANGED data
    /\ pcall' = NoPCall
    /\ tcall' = NoTCall
    /\ UNCHANGED <<file, handle, reads, pruneVars, treeVars, procVars, extVars>>

\* PyProject.persist(force_format=force); formatOk tells whether the external
\* formatter succeeds.
Persist(force, formatOk) ==
    /\ tcall' = NoTCall
    /\ reads' = 0
    /\ handle' = NoHandle
    /\ IF ~data.loaded /\ ~force
       THEN \* nothing loaded, no formatting asked for: return None
            /\ pcall' = [outcome |-> "noop", force |-> force, ret |-> NoHash,
                         preFile |-> file, preData |-> data, renamed |-> FALSE]
            /\ UNCHANGED <<file, data>>
       ELSE IF ~file.exists
       THEN \* _hash(self.path) raises before the try block is entered
            /\ pcall' = [outcome |-> "hash_error", force |-> force, ret |-> NoHash,
                         preFile |-> file, preData |-> data, renamed |-> FALSE]
            /\ UNCHANGED <<file, data>>
       ELSE LET hash == Hash(file)
                temp == IF data.loaded
                        THEN StripNl(TomlDumps([data EXCEPT !.tree = Prune(data.tree)]))
                        ELSE file
            IN  IF ~formatOk
                THEN /\ pcall' = [outcome |-> "format_error", force |-> force,
                                  ret |-> NoHash, preFile |-> file,
                                  preData |-> data, renamed |-> FALSE]
                     /\ data' = DataAfterTry(data, "format_error")
                     /\ UNCHANGED file
                ELSE IF HashDiffers(hash, Hash(Format(temp)))
                THEN /\ pcall' = [outcome |-> "replaced", force |-> force,
                                  ret |-> hash, preFile |-> file,
                                  preData |-> data, renamed |-> TRUE]
                     /\ file' = Format(temp)
                     /\ data' = DataAfterTry(data, "replaced")
                ELSE /\ pcall' = [outcome |-> "unchanged", force |-> force,
                                  ret |-> NoHash, preFile |-> file,
                                  preData |-> data, renamed |-> FALSE]
                     /\ data' = DataAfterTry(data, "unchanged")
                     /\ UNCHANGED file
    /\ UNCHANGED <<pruneVars, treeVars, procVars, extVars>>

InitManifest == ManifestInit /\ PruneIdle /\ TreeIdle /\ ProcIdle /\ ExtIdle

NextManifest ==
    \/ AccessData
    \/ \E keys \in KeyPaths, create \in BOOLEAN : TableCall(keys, create)
    \/ \E key \in Keys, s \in ManifestScalars : SetItem(key, s)
    \/ \E force \in BOOLEAN, formatOk \in BOOLEAN : Persist(force, formatOk)

SpecManifest == InitManifest /\ [][NextManifest]_vars

(***************************************************************************)
(* Specification of filter_members over all small trees and name lists     *)
(***************************************************************************)
TreeInit ==
    /\ treePc = "input"
    /\ tree \in {[name |-> "ws", root |-> RootProj, filtered |-> FALSE, members |-> m] :
                    m \in MembersDicts}
    /\ fnames \in UNION {[1..n -> MemberNames] : n \in 0..MaxNames}
    /\ frequired \in BOOLEAN
    /\ fresult = NoFilterResult

RunFilter ==
    /\ treePc = "input"
    /\ treePc' = "done"
    /\ fresult' = FilterMembers(tree, fnames, frequired)
    /\ UNCHANGED <<tree, fnames, frequired, pruneVars, manifestVars, procVars, extVars>>

InitTree == TreeInit /\ PruneIdle /\ ManifestIdle /\ ProcIdle /\ ExtIdle

NextTree == RunFilter

SpecTree == InitTree /\ [][NextTree]_vars

(***************************************************************************)
(* Specification of one process_start stream, its subprocess and consumer  *)
(***************************************************************************)

\* Largest number of lines the subprocess writes.
MaxWrites == 3

\* Number of lines a pipe holds before a write to it blocks.
PipeCap == 1

\* Exit status of a process ended by SIGKILL / SIGTERM (Popen.returncode).
KilledCode == -9

TermedCode == -15

\* stderr=DEVNULL when stderr_log_level is None ("devnull"); otherwise a
\* pipe, drained before stdout is read ("inline") or by a thread
\* ("background", stderr_log_background=True).
Modes == {"devnull", "inline", "background"}

\* The subprocess writes whole lines to stdout ("out") and stderr ("err");
\* nl tells whether its stdout ends with a newline, that is whether its last
\* stdout line is terminated.
Scripts ==
    {sc \in [writes : UNION {[1..n -> {"out", "err"}] : n \in 0..MaxWrites},
             nl : BOOLEAN, code : {0, 1}] :
        sc.nl \/ \E i \in 1..Len(sc.writes) : sc.writes[i] = "out"}

\* The last write to stdout of a script (0 when it has none).
LastOut(sc) ==
    IF \E i \in 1..Len(sc.writes) : sc.writes[i] = "out"
    THEN CHOOSE i \in 1..Len(sc.writes) :
            /\ sc.writes[i] = "out"
            /\ \A j \in (i + 1)..Len(sc.writes) : sc.writes[j] # "out"
    ELSE 0

\* The text of the line written by write i: one character, different for
\* every write.
LineText(i) == <<ToString(i)>>

\* The line as the text stream hands it over (text=True): its text, and
\* "\n" unless it is the unterminated last line of stdout.
RawLine(sc, i) ==
    IF i = LastOut(sc) /\ ~sc.nl THEN LineText(i) ELSE LineText(i) \o <<"\n">>

Terminated(line) == line[Len(line)] = "\n"

\* _read_stream: if line: yield line[:-1]
ReadStreamLine(line) == SubSeq(line, 1, Len(line) - 1)

\* "\n".join(lines)
JoinLines(lines) ==
    LET RECURSIVE J(_)
        J(k) == IF k = 0 THEN <<>>
                ELSE IF k = 1 THEN lines[1]
                ELSE J(k - 1) \o <<"\n">> \o lines[k]
    IN  J(Len(lines))

IsSpace(c) == c \in {"\n", " "}

\* str.strip()
Strip(str) ==
    LET keep == {i \in 1..Len(str) : ~IsSpace(str[i])}
    IN  IF keep = {} THEN <<>>
        ELSE SubSeq(str, CHOOSE i \in keep : \A j \in keep : i <= j,
                         CHOOSE i \in keep : \A j \in keep : i >= j)

\* process_run with the defaults: "\n".join(process_start(...)).strip()
ProcessRun(lines) == Strip(JoinLines(lines))

ProcInit ==
    /\ gpc = "created"
    /\ opts \in {[mode |-> m, check |-> c] : m \in Modes, c \in BOOLEAN}
    /\ script \in Scripts
    /\ ppc = 0
    /\ pstate = "none"
    /\ pcode = NoCode
    /\ returncode = NoCode
    /\ stdoutPipe = <<>>
    /\ stderrPipe = <<>>
    /\ tstate = "none"
    /\ cleanup = <<>>
    /\ pending = "none"
    /\ exitPath = "none"
    /\ wasRunning = FALSE
    /\ raised = "none"
    /\ errcode = NoCode
    /\ yielded = <<>>

others == <<pruneVars, manifestVars, treeVars, extVars>>

\* The finally block without the final proc.wait() on the timeout path.
PcAfterTerminateNoWait == "join"

\* proc.wait() follows the try/except around kill and wait(timeout=1).
PcAfterTerminate == "wait"

\* The first next(): Popen starts the subprocess, the try block is entered
\* and the stderr thread is started when asked for.
Start ==
    /\ gpc = "created"
    /\ pstate' = "running"
    /\ tstate' = IF opts.mode = "background" THEN "running" ELSE "none"
    /\ gpc' = IF opts.mode = "inline" THEN "drain_inline" ELSE "read_stdout"
    /\ UNCHANGED <<opts, script, ppc, pcode, returncode, stdoutPipe, stderrPipe,
                   cleanup, pending, exitPath, wasRunning, raised, errcode, yielded, others>>

(* The subprocess *)

\* The subprocess writes its next line; a write to a full pipe blocks.
ProcWrite ==
    /\ pstate = "running"
    /\ ppc < Len(script.writes)
    /\ LET op == script.writes[ppc + 1]
       IN  IF op = "out"
           THEN /\ Len(stdoutPipe) < PipeCap
                /\ stdoutPipe' = Append(stdoutPipe, RawLine(script, ppc + 1))
                /\ UNCHANGED stderrPipe
           ELSE IF opts.mode = "devnull"
                THEN UNCHANGED <<stdoutPipe, stderrPipe>>
                ELSE /\ Len(stderrPipe) < PipeCap
                     /\ stderrPipe' = Append(stderrPipe, RawLine(script, ppc + 1))
                     /\ UNCHANGED stdoutPipe
    /\ ppc' = ppc + 1
    /\ UNCHANGED <<gpc, opts, script, pstate, pcode, returncode, tstate, cleanup,
                   pending, exitPath, wasRunning, raised, errcode, yielded, others>>

\* The subprocess has done all its writes and exits; its pipe ends close.
ProcExit ==
    /\ pstate = "running"
    /\ ppc = Len(script.writes)
    /\ pstate' = "exited"
    /\ pcode' = script.code
    /\ UNCHANGED <<gpc, opts, script, ppc, returncode, stdoutPipe, stderrPipe,
                   tstate, cleanup, pending, exitPath, wasRunning, raised, errcode,
                   yielded, others>>

SignalSent(sig) == \E i \in 1..Len(cleanup) : cleanup[i] = sig

\* A signal that was sent ends the subprocess, wherever it is.
ProcDie ==
    /\ pstate = "running"
    /\ \/ SignalSent("kill") /\ pcode' = KilledCode
       \/ SignalSent("terminate") /\ pcode' = TermedCode
    /\ pstate' = "exited"
    /\ UNCHANGED <<gpc, opts, script, ppc, returncode, stdoutPipe, stderrPipe,
                   tstate, cleanup, pending, exitPath, wasRunning, raised, errcode,
                   yielded, others>>

\* End of file on a pipe: nothing buffered and the write end closed.
Eof(pipe) == pipe = <<>> /\ pstate \in {"exited", "reaped"}

(* stderr, drained by the generator itself *)

\* _log_stderr() called inline reads and logs one stderr line.
DrainInline ==
    /\ gpc = "drain_inline"
    /\ stderrPipe # <<>>
    /\ stderrPipe' = Tail(stderrPipe)
    /\ UNCHANGED <<gpc, opts, script, ppc, pstate, pcode, returncode, stdoutPipe,
                   tstate, cleanup, pending, exitPath, wasRunning, raised, errcode,
                   yielded, others>>

\* _log_stderr() called inline returns at the end of stderr.
DrainInlineEof ==
    /\ gpc = "drain_inline"
    /\ Eof(stderrPipe)
    /\ gpc' = "read_stdout"
    /\ UNCHANGED <<opts, script, ppc, pstate, pcode, returncode, stdoutPipe,
                   stderrPipe, tstate, cleanup, pending, exitPath, wasRunning,
                   raised, errcode, yielded, others>>

\* Reading or logging a stderr line raises (a line that does not decode).
DrainInlineRaise ==
    /\ gpc = "drain_inline"
    /\ stderrPipe # <<>>
    /\ stderrPipe' = Tail(stderrPipe)
    /\ gpc' = "finally"
    /\ pending' = "ReadError"
    /\ exitPath' = "exception"
    /\ UNCHANGED <<opts, script, ppc, pstate, pcode, returncode, stdoutPipe,
                   tstate, cleanup, wasRunning, raised, errcode, yielded, others>>

(* stderr, drained by the thread *)

ThreadRead ==
    /\ tstate = "running"
    /\ stderrPipe # <<>>
    /\ stderrPipe' = Tail(stderrPipe)
    /\ UNCHANGED <<gpc, opts, script, ppc, pstate, pcode, returncode, stdoutPipe,
                   tstate, cleanup, pending, exitPath, wasRunning, raised, errcode,
                   yielded, others>>

ThreadEof ==
    /\ tstate = "running"
    /\ Eof(stderrPipe)
    /\ tstate' = "done"
    /\ UNCHANGED <<gpc, opts, script, ppc, pstate, pcode, returncode, stdoutPipe,
                   stderrPipe, cleanup, pending, exitPath, wasRunning,
                   raised, errcode, yielded, others>>

\* An exception in the thread ends the thread; stderr is drained no further.
ThreadRaise ==
    /\ tstate = "running"
    /\ stderrPipe # <<>>
    /\ stderrPipe' = Tail(stderrPipe)
    /\ tstate' = "done"
    /\ UNCHANGED <<gpc, opts, script, ppc, pstate, pcode, returncode, stdoutPipe,
                   cleanup, pending, exitPath, wasRunning, raised, errcode, yielded, others>>

(* stdout *)

\* for line in _read_stream(proc.stdout): ... yield line
\* The stream hands over a line at its "\n", or at the end of the stream.
ReadStdout ==
    /\ gpc = "read_stdout"
    /\ stdoutPipe # <<>>
    /\ Terminated(Head(stdoutPipe)) \/ pstate \in {"exited", "reaped"}
    /\ stdoutPipe' = Tail(stdoutPipe)
    /\ yielded' = Append(yielded, ReadStreamLine(Head(stdoutPipe)))
    /\ gpc' = "yielded"
    /\ UNCHANGED <<opts, script, ppc, pstate, pcode, returncode, stderrPipe,
                   tstate, cleanup, pending, exitPath, wasRunning, raised, errcode, others>>

\* The stdout loop ends at the end of stdout.
ReadStdoutEof ==
    /\ gpc = "read_stdout"
    /\ Eof(stdoutPipe)
    /\ gpc' = "finally"
    /\ exitPath' = "exhausted"
    /\ UNCHANGED <<opts, script, ppc, pstate, pcode, returncode, stdoutPipe,
                   stderrPipe, tstate, cleanup, pending, wasRunning, raised, errcode,
                   yielded, others>>

\* Reading or logging a stdout line raises.
ReadStdoutRaise ==
    /\ gpc = "read_stdout"
    /\ stdoutPipe # <<>>
    /\ Terminated(Head(stdoutPipe)) \/ pstate \in {"exited", "reaped"}
    /\ stdoutPipe' = Tail(stdoutPipe)
    /\ gpc' = "finally"
    /\ pending' = "ReadError"
    /\ exitPath' = "exception"
    /\ UNCHANGED <<opts, script, ppc, pstate, pcode, returncode, stderrPipe,
                   tstate, cleanup, wasRunning, raised, errcode, yielded, others>>

(* The consumer, while the generator is suspended at its yield *)

\* The consumer asks for the next line.
ConsumerNext ==
    /\ gpc = "yielded"
    /\ gpc' = "read_stdout"
    /\ UNCHANGED <<opts, script, ppc, pstate, pcode, returncode, stdoutPipe,
                   stderrPipe, tstate, cleanup, pending, exitPath, wasRunning,
                   raised, errcode, yielded, others>>

\* The consumer stops and calls close(): GeneratorExit is raised at the
\* yield, and what the finally block raises reaches the consumer.
ConsumerClose ==
    /\ gpc = "yielded"
    /\ gpc' = "finally"
    /\ pending' = "GeneratorExit"
    /\ exitPath' = "close"
    /\ UNCHANGED <<opts, script, ppc, pstate, pcode, returncode, stdoutPipe,
                   stderrPipe, tstate, cleanup, wasRunning, raised, errcode, yielded, others>>

\* The consumer stops and drops the generator: the interpreter closes it when
\* it is collected, and what the finally block raises is reported as
\* unraisable, not raised.
ConsumerDrop ==
    /\ gpc = "yielded"
    /\ gpc' = "finally"
    /\ pending' = "GeneratorExit"
    /\ exitPath' = "gc"
    /\ UNCHANGED <<opts, script, ppc, pstate, pcode, returncode, stdoutPipe,
                   stderrPipe, tstate, cleanup, wasRunning, raised, errcode, yielded, others>>

(* The finally block *)

\* proc.poll(): reaps a subprocess that has exited.
Reaped == pstate' = "reaped" /\ returncode' = pcode

\* if proc.poll() is None:
FinallyPoll ==
    /\ gpc = "finally"
    /\ IF pstate = "running"
       THEN /\ wasRunning' = TRUE
            /\ gpc' = "kill"
            /\ UNCHANGED <<pstate, returncode>>
       ELSE /\ Reaped
            /\ gpc' = "wait"
            /\ UNCHANGED wasRunning
    /\ UNCHANGED <<opts, script, ppc, pcode, stdoutPipe, stderrPipe, tstate,
                   cleanup, pending, exitPath, raised, errcode, yielded, others>>

\* proc.kill(): SIGKILL, unless the subprocess has exited meanwhile.
Kill ==
    /\ gpc = "kill"
    /\ IF pstate = "running"
       THEN cleanup' = Append(cleanup, "kill") /\ UNCHANGED <<pstate, returncode>>
       ELSE Reaped /\ UNCHANGED cleanup
    /\ gpc' = "wait_timeout"
    /\ UNCHANGED <<opts, script, ppc, pcode, stdoutPipe, stderrPipe, tstate,
                   pending, exitPath, wasRunning, raised, errcode, yielded, others>>

\* proc.wait(timeout=1) returns: the subprocess has exited.
WaitAfterKill ==
    /\ gpc = "wait_timeout"
    /\ pstate # "running"
    /\ Reaped
    /\ gpc' = "wait"
    /\ UNCHANGED <<opts, script, ppc, pcode, stdoutPipe, stderrPipe, tstate,
                   cleanup, pending, exitPath, wasRunning, raised, errcode, yielded, others>>

\* proc.wait(timeout=1) raises TimeoutExpired: a second has passed and the
\* subprocess has not exited.
WaitTimeout ==
    /\ gpc = "wait_timeout"
    /\ pstate = "running"
    /\ cleanup' = Append(cleanup, "timeout")
    /\ gpc' = "terminate"
    /\ UNCHANGED <<opts, script, ppc, pstate, pcode, returncode, stdoutPipe,
                   stderrPipe, tstate, pending, exitPath, wasRunning, raised, errcode,
                   yielded, others>>

\* except subprocess.TimeoutExpired: proc.terminate(): SIGTERM.
Terminate ==
    /\ gpc = "terminate"
    /\ IF pstate = "running"
       THEN cleanup' = Append(cleanup, "terminate") /\ UNCHANGED <<pstate, returncode>>
       ELSE Reaped /\ UNCHANGED cleanup
    /\ gpc' = PcAfterTerminate
    /\ UNCHANGED <<opts, script, ppc, pcode, stdoutPipe, stderrPipe, tstate,
                   pending, exitPath, wasRunning, raised, errcode, yielded, others>>

\* proc.wait(): blocks until the subprocess has exited.
Wait ==
    /\ gpc = "wait"
    /\ pstate # "running"
    /\ Reaped
    /\ cleanup' = Append(cleanup, "wait")
    /\ gpc' = "join"
    /\ UNCHANGED <<opts, script, ppc, pcode, stdoutPipe, stderrPipe, tstate,
                   pending, exitPath, wasRunning, raised, errcode, yielded, others>>

\* if thread is not None: thread.join()
Join ==
    /\ gpc = "join"
    /\ tstate \in {"none", "done"}
    /\ gpc' = "check"
    /\ UNCHANGED <<opts, script, ppc, pstate, pcode, returncode, stdoutPipe,
                   stderrPipe, tstate, cleanup, pending, exitPath, wasRunning,
                   raised, errcode, yielded, others>>

\* The check of the return code without its test of the check option.
ErrorLeavingIgnoresCheck ==
    IF returncode # 0 THEN "CalledProcessError"
    ELSE IF pending = "ReadError" THEN "ReadError"
    ELSE "none"

\* The error that leaves the finally block: CalledProcessError when check is
\* set and the return code is not 0, else the exception that was in flight.
ErrorLeaving ==
    IF opts.check /\ returncode # 0 THEN "CalledProcessError"
    ELSE IF pending = "ReadError" THEN "ReadError"
    ELSE "none"

\* if check and proc.returncode != 0: raise CalledProcessError; control
\* leaves the generator.
Finish ==
    /\ gpc = "check"
    /\ gpc' = "done"
    /\ raised' = IF exitPath = "gc" THEN "none" ELSE ErrorLeaving
    /\ errcode' = IF raised' = "CalledProcessError" THEN returncode ELSE NoCode
    /\ UNCHANGED <<opts, script, ppc, pstate, pcode, returncode, stdoutPipe,
                   stderrPipe, tstate, cleanup, pending, exitPath, wasRunning,
                   yielded, others>>

InitProc == ProcInit /\ PruneIdle /\ ManifestIdle /\ TreeIdle /\ ExtIdle

NextProc ==
    \/ Start
    \/ ProcWrite
    \/ ProcExit
    \/ ProcDie
    \/ DrainInline
    \/ DrainInlineEof
    \/ DrainInlineRaise
    \/ ThreadRead
    \/ ThreadEof
    \/ ThreadRaise
    \/ ReadStdout
    \/ ReadStdoutEof
    \/ ReadStdoutRaise
    \/ ConsumerNext
    \/ ConsumerClose
    \/ ConsumerDrop
    \/ FinallyPoll
    \/ Kill
    \/ WaitAfterKill
    \/ WaitTimeout
    \/ Terminate
    \/ Wait
    \/ Join
    \/ Finish

SpecProc == InitProc /\ [][NextProc]_vars

(***************************************************************************)
(* Specification of the create command                                     *)
(***************************************************************************)

\* Largest number of components of a relative path argument.
MaxPathParts == 2

\* Largest number of requested dependencies.
MaxDeps == 2

\* Path components and names are strings, written as sequences of characters.
DotDot == <<".", ".">>

WsDir == <<"w", "s">>

PkDir == <<"p", "k">>

OutDir == <<"o">>

SrcDir == <<"s", "r", "c">>

\* pyproject.FILE_NAME
FILE_NAME == <<"pyproject.toml">>

InitPy == <<"__init__.py">>

\* metadata.workspace_root, an absolute path: its components from "/".
RootDir == <<WsDir>>

\* The names pyproject.tree(metadata) knows: its own name and its members'.
TreeName == <<"w">>

TreeMemberNames == {<<"m">>}

CreateNames == {<<"a">>, <<"a", "-", "b">>, <<"-", "c", "-">>}

DepNames == {<<"m">>, <<"w">>, <<"x">>}

PathArgs ==
    {[abs |-> FALSE, parts |-> q] :
        q \in UNION {[1..n -> {PkDir, DotDot}] : n \in 0..MaxPathParts}}
    \cup {[abs |-> TRUE, parts |-> q] : q \in {<<OutDir>>, <<WsDir>>, <<WsDir, PkDir>>}}

\* root_dir / path: an absolute right operand replaces the left one.
JoinPath(base, arg) == IF arg.abs THEN arg.parts ELSE base \o arg.parts

IsPrefix(a, b) == Len(a) <= Len(b) /\ SubSeq(b, 1, Len(a)) = a

\* PurePath.is_relative_to compares components; ".." is a component like
\* any other.
IsRelativeTo(path, base) == IsPrefix(base, path)

\* The directory or file the operating system reaches by a path: ".."
\* leads to the parent, and the parent of "/" is "/".
RECURSIVE Resolve(_)
Resolve(path) ==
    IF path = <<>> THEN <<>>
    ELSE LET front == Resolve(SubSeq(path, 1, Len(path) - 1))
             last == path[Len(path)]
         IN  IF last = DotDot
             THEN IF front = <<>> THEN <<>> ELSE SubSeq(front, 1, Len(front) - 1)
             ELSE Append(front, last)

Dir == [kind |-> "dir"]

Exists(f, path) == Resolve(path) \in DOMAIN f

\* Path.mkdir(parents=True, exist_ok=True): the missing ancestors are made
\* first, each along the path as it is written.
Mkdirs(f, path) ==
    LET made == {Resolve(SubSeq(path, 1, n)) : n \in 0..Len(path)} \ DOMAIN f
    IN  [q \in made |-> Dir] @@ f

\* Path.write_text / Path.touch on a file that does not exist yet.
WriteFile(f, path, content) == (Resolve(path) :> [kind |-> "file", content |-> content]) @@ f

\* name.replace("-", "_") of the first "-" only.
PackageNameFirstOnly(name) ==
    [i \in 1..Len(name) |->
        IF name[i] = "-" /\ \A j \in 1..(i - 1) : name[j] # "-" THEN "_" ELSE name[i]]

\* name.replace("-", "_")
PackageName(name) == [i \in 1..Len(name) |-> IF name[i] = "-" THEN "_" ELSE name[i]]

ProjectDir(a) == Append(JoinPath(RootDir, a.path), a.name)

PyprojectPath(a) == Append(ProjectDir(a), FILE_NAME)

PackageDir(a) == ProjectDir(a) \o <<SrcDir, PackageName(a.name)>>

\* pyproject_data as tomlkit.dumps writes it: the project table, with the
\* dependencies array when project_dependency is not empty.
PyprojectData(a) ==
    [name |-> a.name, version |-> "0", requires_python |-> ">=3.6",
     has_dependencies |-> a.deps # <<>>, dependencies |-> a.deps]

\* The manifest of a project that is there already.
OldData ==
    [name |-> <<"o">>, version |-> "1", requires_python |-> ">=3.6",
     has_dependencies |-> FALSE, dependencies |-> <<>>]

\* What touch leaves in a new file.
EmptyFile == [empty |-> TRUE]

\* The workspace before the command: the root, with or without the packages
\* directory, with or without a project where the new one would go.
BaseFs == (<<>> :> Dir) @@ (RootDir :> Dir)

InitialFs(a) ==
    {BaseFs, Mkdirs(BaseFs, <<WsDir, PkDir>>),
     WriteFile(Mkdirs(BaseFs, ProjectDir(a)), PyprojectPath(a), OldData)}

CreateInit ==
    /\ cpc = "called"
    /\ cargs \in [name : CreateNames, path : PathArgs,
                  deps : UNION {[1..n -> DepNames] : n \in 0..MaxDeps}]
    /\ fs \in InitialFs(cargs)
    /\ fs0 = fs
    /\ cerror = "none"
    /\ syncCalls = <<>>

notCreate ==
    <<pruneVars, manifestVars, treeVars, procVars, readmeVars, metaVars, discoverVars,
      syncVars>>

\* Lines 54-66: the path must be relative to the root and the manifest must
\* not exist yet.
CreateValidate ==
    /\ cpc = "called"
    /\ IF ~IsRelativeTo(JoinPath(RootDir, cargs.path), RootDir)
       THEN cpc' = "failed" /\ cerror' = "invalid_path"
       ELSE IF Exists(fs, PyprojectPath(cargs))
       THEN cpc' = "failed" /\ cerror' = "exists"
       ELSE cpc' = "mkdir" /\ UNCHANGED cerror
    /\ UNCHANGED <<cargs, fs, fs0, syncCalls, notCreate>>

\* project_dir.mkdir(parents=True, exist_ok=True)
CreateMkdir ==
    /\ cpc = "mkdir"
    /\ fs' = Mkdirs(fs, ProjectDir(cargs))
    /\ cpc' = "deps"
    /\ UNCHANGED <<cargs, fs0, cerror, syncCalls, notCreate>>

\* Lines 79-93: every requested dependency must be the name of the tree or
\* of one of its members.
CreateDeps ==
    /\ cpc = "deps"
    /\ IF \E i \in 1..Len(cargs.deps) : cargs.deps[i] \notin {TreeName} \cup TreeMemberNames
       THEN cpc' = "failed" /\ cerror' = "invalid_dependency"
       ELSE cpc' = "write" /\ UNCHANGED cerror
    /\ UNCHANGED <<cargs, fs, fs0, syncCalls, notCreate>>

\* pyproject_path.write_text(tomlkit.dumps(pyproject_data))
CreateWrite ==
    /\ cpc = "write"
    /\ fs' = WriteFile(fs, PyprojectPath(cargs), PyprojectData(cargs))
    /\ cpc' = "package"
    /\ UNCHANGED <<cargs, fs0, cerror, syncCalls, notCreate>>

\* Lines 98-100: the package directory and its __init__.py.
CreatePackage ==
    /\ cpc = "package"
    /\ fs' = WriteFile(Mkdirs(fs, PackageDir(cargs)), Append(PackageDir(cargs), InitPy),
                       EmptyFile)
    /\ cpc' = "sync"
    /\ UNCHANGED <<cargs, fs0, cerror, syncCalls, notCreate>>

\* workspace_sync.sync(new_pyprojects={name: pyproject.PyProject(pyproject_path)})
CreateSync ==
    /\ cpc = "sync"
    /\ syncCalls' = Append(syncCalls,
                           [new_pyprojects |->
                               <<[name |-> cargs.name, path |-> PyprojectPath(cargs)]>>])
    /\ cpc' = "done"
    /\ UNCHANGED <<cargs, fs, fs0, cerror, notCreate>>

InitCreate ==
    CreateInit /\ PruneIdle /\ ManifestIdle /\ TreeIdle /\ ProcIdle /\ ReadmeIdle /\ MetaIdle
    /\ DiscoverIdle /\ SyncIdle

NextCreate ==
    \/ CreateValidate
    \/ CreateMkdir
    \/ CreateDeps
    \/ CreateWrite
    \/ CreatePackage
    \/ CreateSync

SpecCreate == InitCreate /\ [][NextCreate]_vars

(***************************************************************************)
(* Specification of the README update                                      *)
(***************************************************************************)

\* Largest number of pieces a README is put together from.
MaxItems == 3

\* Largest value of the jobs argument.
MaxJobs == 2

Cmds == {"c1", "c2"}

\* The text of a README as a sequence of tokens: a fence line (a line that
\* starts with three backticks, with or without a label), a BEGIN:cmd
\* sentinel with its command, an END:cmd sentinel, other text, and the
\* standard output a task captured.
Fence == <<"fence", "">>

ShellFence == <<"fence", "shell">>

Begin(cmd) == <<"begin", cmd>>

End == <<"end", "">>

Prose == <<"text", "">>

Out(i) == <<"out", ToString(i)>>

IsFence(t) == t[1] = "fence"

IsBegin(t) == t[1] = "begin"

IsEnd(t) == t[1] = "end"

\* The pieces: a block, a block refreshed earlier, a block shown inside a
\* fenced region, prose, a fence line and a BEGIN sentinel on their own.
Items ==
    {<<Begin("c1"), End>>, <<Begin("c2"), Prose, End>>,
     <<Begin("c1"), ShellFence, Prose, Fence, End>>,
     <<Fence, Begin("c1"), End, Fence>>,
     <<Prose>>, <<Fence>>, <<Begin("c2")>>}

RECURSIVE Concat(_)
Concat(ss) == IF ss = <<>> THEN <<>> ELSE Head(ss) \o Concat(Tail(ss))

Readmes == {Concat(ss) : ss \in UNION {[1..n -> Items] : n \in 0..MaxItems}}

\* filter: None, or a pattern, given by the commands it is found in.
Filters == {NoFilter, [given |-> TRUE, matches |-> {"c1"}], [given |-> TRUE, matches |-> {}]}

MinOf(S) == CHOOSE x \in S : \A y \in S : x <= y

\* _CODE_BLOCK_RE.finditer: a fence line up to the next fence line, then on
\* from behind it; a fence line with none after it matches nothing.
RECURSIVE CodeRangesFrom(_, _)
CodeRangesFrom(c, from) ==
    LET opens == {i \in from..Len(c) : IsFence(c[i])}
    IN  IF opens = {} THEN {}
        ELSE LET o == MinOf(opens)
                 closes == {j \in (o + 1)..Len(c) : IsFence(c[j])}
             IN  IF closes = {} THEN {}
                 ELSE {<<o, MinOf(closes)>>} \cup CodeRangesFrom(c, MinOf(closes) + 1)

CodeRanges(c) == CodeRangesFrom(c, 1)

\* is_in_code_block
IsInCodeBlock(c, pos) == \E r \in CodeRanges(c) : r[1] <= pos /\ pos <= r[2]

\* _CMD_BLOCK_RE.finditer: the first BEGIN sentinel that has an END sentinel
\* behind it, up to the nearest one, then on from behind that.
RECURSIVE BlocksFrom(_, _)
BlocksFrom(c, from) ==
    LET begins == {i \in from..Len(c) :
                      IsBegin(c[i]) /\ \E j \in (i + 1)..Len(c) : IsEnd(c[j])}
    IN  IF begins = {} THEN <<>>
        ELSE LET b == MinOf(begins)
                 e == MinOf({j \in (b + 1)..Len(c) : IsEnd(c[j])})
             IN  <<[start |-> b, end |-> e, cmd |-> c[b][2]]>> \o BlocksFrom(c, e + 1)

Blocks(c) == BlocksFrom(c, 1)

\* filter_re and not filter_re.search(cmd)
FilteredOut(filter, cmd) == filter.given /\ cmd \notin filter.matches

\* selected_cmds: the commands of the blocks not in a code block that pass
\* the filter, one entry for each block.
SelectedCmds(c, filter) ==
    LET Sel(m) == ~IsInCodeBlock(c, m.start) /\ ~FilteredOut(filter, m.cmd)
        sel == SelectSeq(Blocks(c), Sel)
    IN  [k \in 1..Len(sel) |-> sel[k].cmd]

\* output_map before any future was collected.
NoOutputs == [cmd \in Cmds |-> 0]

\* _replace without its test of the code block.
ReplacesAnywhere(c, m, omap) == omap[m.cmd] # 0

\* _replace: the match is kept when it starts in a code block or its
\* command has no output.
Replaces(c, m, omap) == ~IsInCodeBlock(c, m.start) /\ omap[m.cmd] # 0

\* _run_cmd and _replace: the sentinels around the output in a shell fence.
Replacement(cmd, task) == <<Begin(cmd), ShellFence, Out(task), Fence, End>>

\* _CMD_BLOCK_RE.sub(_replace, content)
RECURSIVE SubFrom(_, _, _, _)
SubFrom(c, pos, k, omap) ==
    IF k > Len(Blocks(c)) THEN SubSeq(c, pos, Len(c))
    ELSE LET m == Blocks(c)[k]
         IN  SubSeq(c, pos, m.start - 1)
             \o (IF Replaces(c, m, omap) THEN Replacement(m.cmd, omap[m.cmd])
                 ELSE SubSeq(c, m.start, m.end))
             \o SubFrom(c, m.end + 1, k + 1, omap)

Sub(c, omap) == SubFrom(c, 1, 1, omap)

ReadmeInit ==
    /\ rpc = "called"
    /\ rargs \in [filter : Filters, jobs : 1..MaxJobs]
    /\ readme \in Readmes
    /\ readme0 = readme
    /\ tasks = <<>>
    /\ outputMap = NoOutputs
    /\ rerror = "none"

notReadme ==
    <<pruneVars, manifestVars, treeVars, procVars, createVars, metaVars, discoverVars,
      syncVars>>

Running == {i \in 1..Len(tasks) : tasks[i].st = "running"}

Finished(i) == tasks[i].st \in {"ok", "failed", "collected"}

\* Lines 74-110: the blocks are found, the commands selected and one future
\* submitted for each entry of selected_cmds; update_cmd returns when there
\* is no block outside code blocks or none passes the filter.
UpdateStart ==
    /\ rpc = "called"
    /\ LET sel == SelectedCmds(readme, rargs.filter)
       IN  IF sel = <<>>
           THEN rpc' = "done" /\ UNCHANGED tasks
           ELSE /\ rpc' = "pool"
                /\ tasks' = [k \in 1..Len(sel) |-> [cmd |-> sel[k], st |-> "queued"]]
    /\ UNCHANGED <<rargs, readme, readme0, outputMap, rerror, notReadme>>

\* A free worker of the pool takes the oldest future not yet started; the
\* pool has max_workers=jobs workers.
WorkerStart(i) ==
    /\ rpc \in {"pool", "abort"}
    /\ tasks[i].st = "queued"
    /\ \A j \in 1..(i - 1) : tasks[j].st # "queued"
    /\ Cardinality(Running) < rargs.jobs
    /\ tasks' = [tasks EXCEPT ![i].st = "running"]
    /\ UNCHANGED <<rpc, rargs, readme, readme0, outputMap, rerror, notReadme>>

\* _run_cmd returns the fenced output, or process_run raises in it.
WorkerFinish(i, ok) ==
    /\ rpc \in {"pool", "abort"}
    /\ tasks[i].st = "running"
    /\ tasks' = [tasks EXCEPT ![i].st = IF ok THEN "ok" ELSE "failed"]
    /\ UNCHANGED <<rpc, rargs, readme, readme0, outputMap, rerror, notReadme>>

\* for future in as_completed(futures): future.result() gives the output,
\* which goes into output_map, or raises and leaves the loop.
Collect(i) ==
    /\ rpc = "pool"
    /\ tasks[i].st \in {"ok", "failed"}
    /\ IF tasks[i].st = "ok"
       THEN /\ outputMap' = [outputMap EXCEPT ![tasks[i].cmd] = i]
            /\ tasks' = [tasks EXCEPT ![i].st = "collected"]
            /\ UNCHANGED rpc
       ELSE /\ rpc' = "abort"
            /\ UNCHANGED <<tasks, outputMap>>
    /\ UNCHANGED <<rargs, readme, readme0, rerror, notReadme>>

\* The error leaves the with block once the pool has shut down, which waits
\* for every future, and then leaves update_cmd.
Abort ==
    /\ rpc = "abort"
    /\ \A i \in 1..Len(tasks) : Finished(i)
    /\ rpc' = "failed"
    /\ rerror' = "CalledProcessError"
    /\ UNCHANGED <<rargs, readme, readme0, tasks, outputMap, notReadme>>

\* A loop that passes over the futures that raised: it ends once every
\* other future was collected.
LoopEndedSkippingFailures(ts) ==
    \A i \in 1..Len(ts) : ts[i].st \in {"collected", "failed"}

\* Lines 112-114: the loop over as_completed(futures) ends, and the with
\* block is left normally, once future.result() returned for every future.
LoopEnded(ts) ==
    \A i \in 1..Len(ts) : ts[i].st = "collected"

\* Lines 116-135, after the with block: the blocks are substituted and the
\* file is written when its text changed (write is True).
Substitute ==
    /\ rpc = "pool"
    /\ LoopEnded(tasks)
    /\ readme' = Sub(readme, outputMap)
    /\ rpc' = "done"
    /\ UNCHANGED <<rargs, readme0, tasks, outputMap, rerror, notReadme>>

InitReadme ==
    ReadmeInit /\ PruneIdle /\ ManifestIdle /\ TreeIdle /\ ProcIdle /\ CreateIdle /\ MetaIdle
    /\ DiscoverIdle /\ SyncIdle

NextReadme ==
    \/ UpdateStart
    \/ \E i \in 1..Len(tasks) : WorkerStart(i)
    \/ \E i \in 1..Len(tasks), ok \in BOOLEAN : WorkerFinish(i, ok)
    \/ \E i \in 1..Len(tasks) : Collect(i)
    \/ Abort
    \/ Substitute

SpecReadme == InitReadme /\ [][NextReadme]_vars

(***************************************************************************)
(* Specification of workspace.metadata and its cache                       *)
(***************************************************************************)

\* Largest number of calls of workspace.metadata.
MaxCalls == 3

\* Two workspaces; each is the root of its own workspace.
Workspaces == {<<"w1">>, <<"w2">>}

\* The path arguments: absolute ones, and one relative to the working
\* directory.
MetaPaths == {[abs |-> TRUE, parts |-> w] : w \in Workspaces}
             \cup {[abs |-> FALSE, parts |-> <<"m">>]}

\* path.absolute(): the working directory in front of a relative path;
\* nothing is resolved.
Absolute(cwd, path) == IF path.abs THEN path.parts ELSE cwd \o path.parts

MetaKeys == Workspaces \cup {Absolute(w, p) : w \in Workspaces, p \in MetaPaths}

NotCached == [workspace_root |-> <<"none">>]

\* What "uv workspace metadata" prints when it runs in the directory: the
\* workspace that directory is in. (_metadata passes no cwd to process_run.)
ToolOutput(cwd) == [workspace_root |-> <<cwd[1]>>]

\* functools.lru_cache that stores nothing.
StoredNever(cache, key, ok, result) == cache

\* functools.lru_cache: the value a call returned is stored under its
\* argument; a call that raised stores nothing.
Stored(cache, key, ok, result) == IF ok THEN [cache EXCEPT ![key] = result] ELSE cache

MetaInit ==
    /\ mcwd \in Workspaces
    /\ mcache = [k \in MetaKeys |-> NotCached]
    /\ minv = <<>>
    /\ mcalls = 0
    /\ mlast = NoMetaCall

notMeta ==
    <<pruneVars, manifestVars, treeVars, procVars, createVars, readmeVars, discoverVars,
      syncVars>>

\* os.chdir(working_directory) of the command line callback.
Chdir(dir) ==
    /\ mcwd # dir
    /\ mcwd' = dir
    /\ mlast' = NoMetaCall
    /\ UNCHANGED <<mcache, minv, mcalls, notMeta>>

\* workspace.metadata(path): path defaults to the working directory; a hit
\* of the cache returns what is stored, a miss runs the tool, which prints
\* the metadata (ok) or fails, so that process_run raises.
MetadataCall(given, path, ok) ==
    /\ mcalls < MaxCalls
    /\ mcalls' = mcalls + 1
    /\ LET key == IF given THEN Absolute(mcwd, path) ELSE mcwd
           hit == mcache[key] # NotCached
       IN  /\ minv' = IF hit THEN minv
                      ELSE Append(minv, [key |-> key, cwd |-> mcwd, ok |-> ok])
           /\ mcache' = IF hit THEN mcache ELSE Stored(mcache, key, ok, ToolOutput(mcwd))
           /\ mlast' = [given |-> given, path |-> IF given THEN path.parts ELSE <<>>,
                        key |-> key, invoked |-> ~hit,
                        raised |-> ~hit /\ ~ok,
                        result |-> IF hit THEN mcache[key]
                                   ELSE IF ok THEN ToolOutput(mcwd) ELSE NoMetadata]
    /\ UNCHANGED <<mcwd, notMeta>>

InitMeta ==
    MetaInit /\ PruneIdle /\ ManifestIdle /\ TreeIdle /\ ProcIdle /\ CreateIdle /\ ReadmeIdle
    /\ DiscoverIdle /\ SyncIdle

NextMeta ==
    \/ \E dir \in Workspaces : Chdir(dir)
    \/ \E given \in BOOLEAN, path \in MetaPaths, ok \in BOOLEAN : MetadataCall(given, path, ok)

SpecMeta == InitMeta /\ [][NextMeta]_vars

(***************************************************************************)
(* Specification of pyproject.tree(metadata)                               *)
(***************************************************************************)

\* Largest number of members in the metadata.
MaxMembers == 2

DiscoverNames == {<<"m", "1">>, <<"m", "2">>, <<"r">>}

\* The repository name _git_repo_name finds; empty when it returns None.
GitNames == {<<>>, <<"r", "e", "p", "o">>}

\* The members of a workspace rooted at RootDir: each in its own directory
\* below the root, but for at most one, which is the root project.
MemberLists ==
    UNION {{[i \in 1..Len(ns) |->
                [name |-> ns[i],
                 path |-> IF i = r THEN RootDir ELSE RootDir \o <<PkDir, ns[i]>>]] :
               r \in 0..Len(ns)} :
           ns \in {q \in DistinctSeqs(DiscoverNames) : Len(q) <= MaxMembers}}

\* Path.name: the last component.
PathName(path) == IF path = <<>> THEN <<>> ELSE path[Len(path)]

\* _file_path for a path that is a directory, as the workspace root and the
\* member paths are: FILE_NAME is appended; the result is relative to the
\* working directory when it lies below it.
FilePath(path, cwd) ==
    LET toml == Append(path, FILE_NAME)
    IN  IF IsPrefix(cwd, toml)
        THEN [abs |-> FALSE, parts |-> SubSeq(toml, Len(cwd) + 1, Len(toml))]
        ELSE [abs |-> TRUE, parts |-> toml]

\* PyProject(path)
NewPyProject(path, cwd) == [path |-> FilePath(path, cwd)]

\* root_proj.path.name
RootPathName(meta, root) == PathName(root.path.parts)

\* The loop over metadata.members: the member at the workspace root gives
\* root_proj_name and is skipped, every other one gets a PyProject.
RECURSIVE TreeLoop(_, _, _, _)
TreeLoop(meta, cwd, k, acc) ==
    IF k > Len(meta.members) THEN acc
    ELSE LET member == meta.members[k]
         IN  IF meta.workspace_root = member.path
             THEN TreeLoop(meta, cwd, k + 1, [acc EXCEPT !.root_proj_name = member.name])
             ELSE TreeLoop(meta, cwd, k + 1,
                           [acc EXCEPT !.member_projs =
                               Append(@, [name |-> member.name,
                                          proj |-> NewPyProject(member.path, cwd)])])

\* pyproject.tree(metadata); a or b is b when a is None or empty.
BuildTree(meta, cwd, git) ==
    LET loop == TreeLoop(meta, cwd, 1, [root_proj_name |-> <<>>, member_projs |-> <<>>])
        root == NewPyProject(meta.workspace_root, cwd)
    IN  [name |-> IF loop.root_proj_name # <<>> THEN loop.root_proj_name
                  ELSE IF git # <<>> THEN git
                  ELSE RootPathName(meta, root),
         root |-> root,
         members |-> loop.member_projs]

DiscoverInit ==
    /\ dpc = "input"
    /\ dmeta \in [workspace_root : {RootDir}, members : MemberLists]
    /\ dcwd \in {RootDir, <<OutDir>>}
    /\ dgit \in GitNames
    /\ dtree = NoBuiltTree

RunTree ==
    /\ dpc = "input"
    /\ dpc' = "done"
    /\ dtree' = BuildTree(dmeta, dcwd, dgit)
    /\ UNCHANGED <<dmeta, dcwd, dgit, pruneVars, manifestVars, treeVars, procVars,
                   createVars, readmeVars, metaVars, syncVars>>

InitDiscover ==
    DiscoverInit /\ PruneIdle /\ ManifestIdle /\ TreeIdle /\ ProcIdle /\ CreateIdle
    /\ ReadmeIdle /\ MetaIdle /\ SyncIdle

NextDiscover == RunTree

SpecDiscover == InitDiscover /\ [][NextDiscover]_vars

(***************************************************************************)
(* Specification of the synchronizer (workspace_sync.sync) over small      *)
(* trees: the members are filtered, and each selected member receives the  *)
(* root's build-backend and the computed version and is persisted.         *)
(***************************************************************************)

\* Largest patch level of an override or of a stored baseline.
MaxPatch == 1

\* Longest list of member names handed to sync.
MaxFilter == 1

\* The members a tree may hold.
SyncMemberNames == {"m1", "m2"}

RootBackend == "hatchling.build"

OtherBackend == "setuptools.build_meta"

Version(major, minor, patch) ==
    [given |-> TRUE, major |-> major, minor |-> minor, patch |-> patch]

Baselines == {NoVersion} \cup {Version(0, 0, p) : p \in 0..MaxPatch}

\* MAJOR.MINOR.PATCH
VersionText(v) == ToString(v.major) \o "." \o ToString(v.minor) \o "." \o ToString(v.patch)

\* The descriptor of the commit, appended after "+".
Descriptor == "g1"

\* [build-system] with its build-backend.
BuildSystem(backend) == Table(<<Entry("build-backend", Scalar(backend))>>)

\* The root manifest: it declares the build backend.
RootDoc == Table(<<Entry("build-system", BuildSystem(RootBackend))>>)

\* A member manifest: a [project] table with or without a version, after
\* no [build-system] table ("none") or one with the given backend.
MemberDoc(backend, version) ==
    LET project == Table(IF version = "" THEN <<Entry("name", Scalar("pkg"))>>
                         ELSE <<Entry("name", Scalar("pkg")),
                                Entry("version", Scalar(version))>>)
    IN  Table(IF backend = "none" THEN <<Entry("project", project)>>
              ELSE <<Entry("build-system", BuildSystem(backend)),
                     Entry("project", project)>>)

MemberTexts ==
    {Text(MemberDoc(b, v), st) :
        b \in {"none", OtherBackend, RootBackend}, v \in {"", "0.0.0"},
        st \in {"canon", "padded"}}

\* The member manifests of a tree, in the order of its members dict.
MemberFiles ==
    UNION {{[i \in 1..Len(ks) |-> [name |-> ks[i], file |-> fl[i]]] :
               fl \in [1..Len(ks) -> MemberTexts]} :
           ks \in DistinctSeqs(SyncMemberNames)}

\* The tree pyproject.tree() gives for the manifests on disk.
SyncTree(files) ==
    [name |-> "ws", root |-> RootProj, filtered |-> FALSE,
     members |-> [i \in 1..Len(files) |->
                     [name |-> files[i].name, proj |-> ProjOf(files[i].name)]]]

\* The manifest of member name.
ManifestOf(files, name) ==
    files[CHOOSE i \in 1..Len(files) : files[i].name = name].file

\* table[key] = value: the value of an existing key is replaced where it
\* stands, a new key is added after the others.
DocPut(t, k, v) ==
    IF TContains(t, k)
    THEN [t EXCEPT !.items[Find(t, k)].value = v]
    ELSE [t EXCEPT !.items = Append(@, Entry(k, v))]

\* The table of doc at key, a new empty one when the document has none.
DocTable(doc, k) == IF IsMapping(TGet(doc, k)) THEN TGet(doc, k) ELSE Table(<<>>)

\* Step 1: the build-backend of the root is copied into the member's
\* build-system table, over the value the member has.
CopyBuildBackend(member, root) ==
    DocPut(member, "build-system",
           DocPut(DocTable(member, "build-system"), "build-backend",
                  GetPath(root, <<"build-system", "build-backend">>)))

\* The baseline: the override, else the stored baseline, else 0.0.0.
Baseline(override, stored) ==
    IF override.given THEN override
    ELSE IF stored.given THEN stored
    ELSE Version(0, 0, 0)

\* The next patch-level increment.
NextPatch(v) == [v EXCEPT !.patch = @ + 1]

\* Step 2: the version of a member.
ComputeVersion(override, repo) ==
    LET text == VersionText(NextPatch(Baseline(override, repo.base)))
    IN  IF repo.dirty THEN text \o "+" \o Descriptor ELSE text

\* Step 3: the version is written into the member's [project] table.
WriteVersion(member, version) ==
    DocPut(member, "project",
           DocPut(DocTable(member, "project"), "version", Scalar(version)))

\* A persist that formats the file it finds and never dumps the document.
PersistedFormatsOnly(f, d) ==
    IF HashDiffers(Hash(f), Hash(Format(f))) THEN Format(f) ELSE f

\* PyProject.persist() with a loaded document d over the file f, when the
\* formatter succeeds: the file afterwards.
Persisted(f, d) ==
    LET temp == Format(StripNl(TomlDumps([d EXCEPT !.tree = Prune(d.tree)])))
    IN  IF HashDiffers(Hash(f), Hash(temp)) THEN temp ELSE f

\* What that persist returns: the previous hash when the file was replaced.
PersistReturn(f, d) ==
    IF Persisted(f, d) # f THEN Hash(f) ELSE NoHash

SyncInit ==
    /\ spc = "called"
    /\ sargs \in [names : UNION {[1..n -> MemberNames] : n \in 0..MaxFilter},
                  override : Baselines]
    /\ srepo \in [base : Baselines, dirty : BOOLEAN]
    /\ sroot = Text(RootDoc, "canon")
    /\ sman \in MemberFiles
    /\ sman0 = sman
    /\ stodo = <<>>
    /\ schanged = {}
    /\ serror = "none"

notSync ==
    <<pruneVars, manifestVars, treeVars, procVars, createVars, readmeVars, metaVars,
      discoverVars>>

\* The tree is filtered by the names given; names that match no member are
\* ignored.
SyncStart ==
    /\ spc = "called"
    /\ spc' = "syncing"
    /\ stodo' = DictKeys(FilterMembers(SyncTree(sman), sargs.names, FALSE).tree.members)
    /\ UNCHANGED <<sargs, srepo, sroot, sman, sman0, schanged, serror, notSync>>

\* One member: steps 1 to 3.  A persist that fails (the formatter fails)
\* ends sync; the members before it stay as they were written.
SyncMember(formatOk) ==
    /\ spc = "syncing"
    /\ stodo # <<>>
    /\ LET name == Head(stodo)
           f == ManifestOf(sman, name)
           d == TomlLoad(f)
           doc == WriteVersion(CopyBuildBackend(d.tree, TomlLoad(sroot).tree),
                               ComputeVersion(sargs.override, srepo))
           i == CHOOSE j \in 1..Len(sman) : sman[j].name = name
       IN  IF ~formatOk
           THEN /\ spc' = "failed"
                /\ serror' = "CalledProcessError"
                /\ UNCHANGED <<sman, stodo, schanged>>
           ELSE /\ sman' = [sman EXCEPT ![i].file = Persisted(f, [d EXCEPT !.tree = doc])]
                /\ schanged' = IF PersistReturn(f, [d EXCEPT !.tree = doc]) # NoHash
                               THEN schanged \cup {name} ELSE schanged
                /\ stodo' = Tail(stodo)
                /\ UNCHANGED <<spc, serror>>
    /\ UNCHANGED <<sargs, srepo, sroot, sman0, notSync>>

\* Every selected member was synchronized.
SyncFinish ==
    /\ spc = "syncing"
    /\ stodo = <<>>
    /\ spc' = "done"
    /\ UNCHANGED <<sargs, srepo, sroot, sman, sman0, stodo, schanged, serror, notSync>>

InitSync ==
    SyncInit /\ PruneIdle /\ ManifestIdle /\ TreeIdle /\ ProcIdle /\ CreateIdle
    /\ ReadmeIdle /\ MetaIdle /\ DiscoverIdle

NextSync ==
    \/ SyncStart
    \/ \E formatOk \in BOOLEAN : SyncMember(formatOk)
    \/ SyncFinish

SpecSync == InitSync /\ [][NextSync]_vars

(***************************************************************************)
(* C1                                                                      *)
(***************************************************************************)

\* The formatted content a persist call compares with the file: the pruned,
\* stripped and formatted document, or the formatted copy of the file when
\* no document is loaded.
NewContent(c) ==
    IF c.preData.loaded
    THEN Format(StripNl(TomlDumps([c.preData EXCEPT !.tree = Prune(c.preData.tree)])))
    ELSE Format(c.preFile)

\* C1: a persist call that got to compare replaces the manifest exactly when
\* the formatted new content differs from the content on disk before the
\* call; then it returns the hash of the previous content and the file holds
\* the new content; otherwise it returns None and the file is neither
\* renamed over nor changed.
C1_PersistReplacesIffDiffers ==
    pcall.outcome \in {"replaced", "unchanged"} =>
        LET new == NewContent(pcall)
            old == pcall.preFile
        IN  /\ (pcall.outcome = "replaced") <=> (new # old)
            /\ new # old => /\ pcall.ret = Hash(old)
                            /\ pcall.renamed
                            /\ file = new
            /\ new = old => /\ pcall.ret = NoHash
                            /\ ~pcall.renamed
                            /\ file = old

\* A persist of a loaded document that differs from the manifest only by
\* what pruning removes: the formatted content is identical.
C1_Witness ==
    /\ pcall.outcome = "unchanged"
    /\ pcall.preData.loaded
    /\ pcall.preData.tree # pcall.preFile.tree
    /\ file = pcall.preFile

(***************************************************************************)
(* C2                                                                      *)
(***************************************************************************)

\* C2: after table(*keys, create=True) met a non-table value on its path, the
\* document holds a table at every key of the path and the returned table is
\* the one the document holds at the full path.
C2_TableCreateReplacesNonTable ==
    tcall.keys # <<>> =>
        /\ \A n \in 1..Len(tcall.keys) :
              IsMapping(GetPath(data.tree, SubSeq(tcall.keys, 1, n)))
        /\ handle = [status |-> "attached", path |-> tcall.keys]

(***************************************************************************)
(* C3                                                                      *)
(***************************************************************************)

\* C3: right after any persist call, whatever its outcome, no document is in
\* memory; and the manifest is read from disk at most once between two
\* persist calls.
C3_PersistClearsDocument ==
    /\ pcall.outcome # "none" => ~data.loaded
    /\ reads <= 1

\* A persist call of a loaded document whose formatter run failed.
C3_Witness ==
    /\ pcall.outcome = "format_error"
    /\ pcall.preData.loaded
    /\ ~data.loaded

(***************************************************************************)
(* C4                                                                      *)
(***************************************************************************)
RECURSIVE HasEmptyContainer(_), Leaves(_, _), LeavesOfItems(_, _, _)
RECURSIVE HasScalar(_), KeptContainers(_), Containers(_)

\* Some container strictly below v is empty.
HasEmptyContainer(v) ==
    \E i \in 1..Len(v.items) :
        LET c == v.items[i].value
        IN  IsCollection(c) /\ (Len(c.items) = 0 \/ HasEmptyContainer(c))

\* The scalars of v in document order, each with its key path.
LeavesOfItems(items, i, path) ==
    IF i > Len(items) THEN <<>>
    ELSE Leaves(items[i].value, Append(path, items[i].key))
         \o LeavesOfItems(items, i + 1, path)

Leaves(v, path) ==
    IF v.kind = "scalar" THEN <<[path |-> path, val |-> v.val]>>
    ELSE LeavesOfItems(v.items, 1, path)

\* v is a scalar or holds a scalar at some depth.
HasScalar(v) ==
    \/ v.kind = "scalar"
    \/ \E i \in 1..Len(v.items) : HasScalar(v.items[i].value)

\* Number of containers strictly below v.
Containers(v) ==
    SeqSum([i \in 1..Len(v.items) |->
               LET c == v.items[i].value
               IN  IF IsCollection(c) THEN 1 + Containers(c) ELSE 0],
           Len(v.items))

\* Number of containers strictly below v that hold a scalar at some depth.
KeptContainers(v) ==
    SeqSum([i \in 1..Len(v.items) |->
               LET c == v.items[i].value
               IN  IF IsCollection(c) /\ HasScalar(c) THEN 1 + KeptContainers(c) ELSE 0],
           Len(v.items))

\* C4: after _prune the document holds no empty table or array at any depth,
\* every scalar (0, false and "" included) is still there under its key path
\* and in its order, and exactly the containers that hold a scalar at some
\* depth remain.
C4_PruneRemovesExactlyEmpty ==
    prunePc = "done" =>
        /\ ~HasEmptyContainer(pruneOut)
        /\ Leaves(pruneOut, <<>>) = Leaves(pruneIn, <<>>)
        /\ Containers(pruneOut) = KeptContainers(pruneIn)

\* A document with a falsy scalar next to a container that is empty only
\* after its own child was pruned.
C4_Witness ==
    /\ prunePc = "done"
    /\ \E i \in 1..Len(pruneIn.items) :
          LET c == pruneIn.items[i].value
          IN  IsCollection(c) /\ Len(c.items) > 0 /\ ~HasScalar(c)
    /\ \E i \in 1..Len(pruneIn.items) :
          LET c == pruneIn.items[i].value
          IN  c.kind = "scalar" /\ ~Truthy(c.val)
    /\ Len(pruneOut.items) = 1

(***************************************************************************)
(* C5                                                                      *)
(***************************************************************************)

\* The names of q that name a member of d, each once, in the order of
\* their first occurrence in q.
RECURSIVE FirstSeen(_, _, _)
FirstSeen(q, d, seen) ==
    IF q = <<>> THEN <<>>
    ELSE IF Head(q) \in seen \/ ~DictHas(d, Head(q))
         THEN FirstSeen(Tail(q), d, seen)
         ELSE <<Head(q)>> \o FirstSeen(Tail(q), d, seen \cup {Head(q)})

\* Some requested name is no member of the tree.
SomeMissing == \E i \in 1..Len(fnames) : ~DictHas(tree.members, fnames[i])

\* C5: for a non-empty list of names, filter_members fails exactly when
\* required is set and a requested name has no member, and the error names
\* such a name; otherwise it returns a new tree, marked filtered, with the
\* name and the root instance of the original, whose members are the
\* requested names that exist, each once, in the order first requested, with
\* the manifest instances of the original.
C5_FilterMembers ==
    (treePc = "done" /\ Len(fnames) > 0) =>
        IF frequired /\ SomeMissing
        THEN /\ fresult.raised
             /\ fresult.missing \in SeqToSet(fnames)
             /\ ~DictHas(tree.members, fresult.missing)
        ELSE /\ ~fresult.raised
             /\ ~fresult.same
             /\ fresult.tree.filtered
             /\ fresult.tree.name = tree.name
             /\ fresult.tree.root = tree.root
             /\ DictKeys(fresult.tree.members) = FirstSeen(fnames, tree.members, {})
             /\ \A i \in 1..Len(fresult.tree.members) :
                   fresult.tree.members[i].proj
                       = DictGet(tree.members, fresult.tree.members[i].name)

\* A request that repeats a name, names a non-member (not required) and
\* orders the names unlike the tree does.
C5_Witness ==
    /\ treePc = "done"
    /\ ~frequired
    /\ SomeMissing
    /\ Len(fnames) > Cardinality(SeqToSet(fnames))
    /\ Len(fresult.tree.members) = 1
    /\ Len(tree.members) > 1

(***************************************************************************)
(* C6                                                                      *)
(***************************************************************************)

\* The consumer stopped early and the subprocess was still running when the
\* finally block began.
EarlyStopWhileRunning == exitPath \in {"close", "gc"} /\ wasRunning

\* C6: when the consumer stops early while the subprocess runs, SIGKILL is
\* sent only after SIGTERM was sent and the grace period ran out, and the
\* cleanup ends with a wait.
C6_TerminateThenKillThenWait ==
    EarlyStopWhileRunning =>
        /\ \A i \in 1..Len(cleanup) :
              cleanup[i] = "kill" =>
                  \E j, k \in 1..Len(cleanup) :
                      /\ j < k /\ k < i
                      /\ cleanup[j] = "terminate"
                      /\ cleanup[k] = "timeout"
        /\ gpc = "done" => cleanup[Len(cleanup)] = "wait"

(***************************************************************************)
(* C7                                                                      *)
(***************************************************************************)

\* C7: when control has left the stream, on whatever path, the subprocess
\* has exited and was waited on and the stderr thread, if started, is done.
C7_NothingLeftRunning ==
    gpc = "done" =>
        /\ pstate = "reaped"
        /\ returncode = pcode
        /\ tstate \in {"none", "done"}

\* An early close of a stream with a stderr thread, whose subprocess ran
\* on past the kill until the wait timed out.
C7_Witness ==
    /\ gpc = "done"
    /\ EarlyStopWhileRunning
    /\ opts.mode = "background"
    /\ SignalSent("terminate")
    /\ pstate = "reaped"
    /\ tstate = "done"

(***************************************************************************)
(* C8                                                                      *)
(***************************************************************************)

\* The subprocess is blocked in a write to a full pipe.
ProcBlocked ==
    /\ pstate = "running"
    /\ ppc < Len(script.writes)
    /\ IF script.writes[ppc + 1] = "out"
       THEN Len(stdoutPipe) >= PipeCap
       ELSE opts.mode # "devnull" /\ Len(stderrPipe) >= PipeCap

\* The generator is blocked in a read of an empty pipe.
GenBlocked ==
    \/ gpc = "drain_inline" /\ stderrPipe = <<>>
    \/ gpc = "read_stdout" /\ stdoutPipe = <<>>

\* C8: the stream never deadlocks on a full pipe: the subprocess blocked in
\* a write while the generator is blocked in a read and no thread is there
\* to drain.
C8_NoPipeDeadlock ==
    ~(/\ ProcBlocked
      /\ GenBlocked
      /\ (tstate # "running" \/ stderrPipe = <<>>))

(***************************************************************************)
(* C9                                                                      *)
(***************************************************************************)

\* C9: a stdout line of a running subprocess never waits in the pipe while
\* the generator is blocked on the subprocess's stderr.
C9_LinesYieldedAsTheyArrive ==
    ~(/\ pstate = "running"
      /\ stdoutPipe # <<>>
      /\ gpc = "drain_inline"
      /\ stderrPipe = <<>>)

(***************************************************************************)
(* C10                                                                     *)
(***************************************************************************)

\* C10: after the consumer stopped early while the subprocess ran, the
\* cleanup has raised nothing to the consumer, whatever check is.
C10_EarlyStopRaisesNothing ==
    (gpc = "done" /\ EarlyStopWhileRunning) => raised = "none"


(***************************************************************************)
(* C11: the lines of a fully consumed stream                               *)
(***************************************************************************)

\* The texts of the lines the script writes to stdout, in order.
StdoutTexts(sc) ==
    LET IsOut(i) == sc.writes[i] = "out"
        outs == SelectSeq([i \in 1..Len(sc.writes) |-> i], IsOut)
    IN  [k \in 1..Len(outs) |-> LineText(outs[k])]

\* C11: when the subprocess ran to its own exit and the consumer read the
\* stream to its end, the yielded lines are exactly the stdout lines of the
\* subprocess, in order, each without its terminator, whether or not the
\* last one ends with a newline, with no stderr line among them; and
\* process_run gives these lines joined by newlines.
C11_YieldsStdoutLines ==
    (gpc = "done" /\ exitPath = "exhausted" /\ pcode = script.code) =>
        /\ yielded = StdoutTexts(script)
        /\ raised = "none" => ProcessRun(yielded) = JoinLines(StdoutTexts(script))

(***************************************************************************)
(* C12: the failure on a non-zero exit code                                *)
(***************************************************************************)

\* C12: when control leaves the stream to its caller, the caller gets a
\* CalledProcessError exactly when check is set and the subprocess ended
\* with a non-zero code, and the error carries that code; with check unset
\* no CalledProcessError is raised.
C12_FailsIffCheckedNonZero ==
    (gpc = "done" /\ exitPath # "gc") =>
        /\ raised = "CalledProcessError" <=> (opts.check /\ pcode # 0)
        /\ raised = "CalledProcessError" => errcode = pcode
        /\ raised # "CalledProcessError" => errcode = NoCode

C12_Witness ==
    /\ gpc = "done"
    /\ exitPath = "exhausted"
    /\ opts.check
    /\ pcode = 1
    /\ raised = "CalledProcessError"
    /\ errcode = 1

(***************************************************************************)
(* C20: persist when the manifest file does not exist                      *)
(***************************************************************************)

\* C20: a persist call that has something to do (a loaded document, or
\* force_format) on a manifest whose file does not exist does not fail at
\* the hash of the previous content, and the manifest exists afterwards.
C20_PersistOnMissingFile ==
    (/\ pcall.outcome # "none"
     /\ ~pcall.preFile.exists
     /\ pcall.preData.loaded \/ pcall.force) =>
        /\ pcall.outcome # "hash_error"
        /\ file.exists

(***************************************************************************)
(* C13: create and paths outside the workspace root                        *)
(***************************************************************************)

\* The directory that root_dir / path leads to is the root or lies below it.
InsideRoot(a) == IsPrefix(RootDir, Resolve(JoinPath(RootDir, a.path)))

\* C13: once the path was validated, create has raised the invalid-path
\* error for every path argument that leads outside the workspace root,
\* through ".." components or as an absolute path elsewhere, and has let
\* pass only paths that lead into the root.
C13_RejectsOutsideRoot ==
    cpc # "called" => (cerror = "invalid_path" <=> ~InsideRoot(cargs))

(***************************************************************************)
(* C14: a create that fails validation changes nothing                     *)
(***************************************************************************)

\* C14: when create has failed (path outside the root, manifest already
\* there, or a dependency that is no project name), the filesystem is what
\* it was when create was called.
C14_FailedCreateChangesNothing == cpc = "failed" => fs = fs0

(***************************************************************************)
(* C15: what is on disk when create calls sync                             *)
(***************************************************************************)

\* The manifest at the new project's path holds the project name, the
\* placeholder version, the Python constraint, and the dependencies exactly
\* when some were requested.
ManifestOnDisk(f, a) ==
    /\ Exists(f, PyprojectPath(a))
    /\ LET m == f[Resolve(PyprojectPath(a))]
       IN  /\ m.kind = "file"
           /\ m.content.name = a.name
           /\ m.content.version = "0"
           /\ m.content.requires_python = ">=3.6"
           /\ m.content.has_dependencies <=> Len(a.deps) > 0
           /\ m.content.has_dependencies => m.content.dependencies = a.deps

\* src/<name with "_" for every "-">/__init__.py is a file of the new project.
MarkerOnDisk(f, a) ==
    \E pkg \in [1..Len(a.name) -> {"a", "b", "c", "-", "_"}] :
        /\ \A i \in 1..Len(a.name) :
              pkg[i] = IF a.name[i] = "-" THEN "_" ELSE a.name[i]
        /\ LET marker == ProjectDir(a) \o <<SrcDir, pkg, InitPy>>
           IN  Exists(f, marker) /\ f[Resolve(marker)].kind = "file"

\* C15: whenever sync has been called, the manifest and the package marker
\* file are on disk, sync was called once, and with the new project only;
\* and a create that succeeded has called it.
C15_FilesBeforeSync ==
    /\ syncCalls # <<>> =>
          /\ ManifestOnDisk(fs, cargs)
          /\ MarkerOnDisk(fs, cargs)
          /\ Len(syncCalls) = 1
          /\ syncCalls[1].new_pyprojects =
                <<[name |-> cargs.name, path |-> PyprojectPath(cargs)]>>
    /\ cpc = "done" => Len(syncCalls) = 1

C15_Witness ==
    /\ cpc = "done"
    /\ Len(syncCalls) = 1
    /\ cargs.name = <<"-", "c", "-">>
    /\ Len(cargs.deps) = 2
    /\ cargs.path.parts = <<PkDir>>

(***************************************************************************)
(* C16: the commands of one README update                                  *)
(***************************************************************************)

\* The tasks that have run the command.
RunsOf(cmd) == {i \in 1..Len(tasks) : tasks[i].cmd = cmd /\ tasks[i].st # "queued"}

\* C16: in one update, every selected command has run exactly once when the
\* update is done, however many blocks carry it; never more commands run at
\* a time than jobs; and the README is unchanged as long as a selected
\* command has not completed.
C16_EachCommandOnce ==
    /\ rpc = "done" =>
          \A k \in 1..Len(SelectedCmds(readme0, rargs.filter)) :
              Cardinality(RunsOf(SelectedCmds(readme0, rargs.filter)[k])) = 1
    /\ Cardinality(Running) <= rargs.jobs
    /\ readme # readme0 => \A i \in 1..Len(tasks) : Finished(i)

(***************************************************************************)
(* C17: which blocks a README update refreshes                             *)
(***************************************************************************)

\* The block lies outside the fenced code regions of the text.
BlockOutside(c, m) == ~IsInCodeBlock(c, m.start) /\ ~IsInCodeBlock(c, m.end)

\* The block lies inside one fenced code region of the text.
BlockInside(c, m) == \E r \in CodeRanges(c) : r[1] < m.start /\ m.end < r[2]

\* The text between block k and the block after it (before the first block
\* for k = 0, behind the last one for k = Len(Blocks(c))).
Gap(c, k) ==
    LET bs == Blocks(c)
        from == IF k = 0 THEN 1 ELSE bs[k].end + 1
        to == IF k = Len(bs) THEN Len(c) ELSE bs[k + 1].start - 1
    IN  SubSeq(c, from, to)

GoodRuns(key) == {i \in 1..Len(minv) : minv[i].key = key /\ minv[i].ok}

\* C18: over any sequence of calls the tool is run again for an absolute
\* directory only after runs for it that failed, so it succeeds at most once
\* for each; a call for a directory with an earlier successful call does not
\* run the tool and returns the result of that first successful call; and a
\* call that failed leaves nothing in the cache, so the next call for the
\* directory runs the tool.
C18_MetadataCachedOnce ==
    /\ \A i, j \in 1..Len(minv) : (i < j /\ minv[i].key = minv[j].key) => ~minv[i].ok
    /\ \A key \in MetaKeys :
          /\ Cardinality(GoodRuns(key)) <= 1
          /\ mcache[key] # NotCached <=> GoodRuns(key) # {}
          /\ \A i \in GoodRuns(key) : mcache[key] = ToolOutput(minv[i].cwd)
    /\ mlast # NoMetaCall =>
          /\ mlast.raised => mlast.invoked /\ mcache[mlast.key] = NotCached
          /\ ~mlast.raised => mlast.result = mcache[mlast.key]
          /\ ~mlast.invoked => GoodRuns(mlast.key) # {}

C18_Witness ==
    /\ mlast # NoMetaCall
    /\ ~mlast.invoked
    /\ Len(minv) = 2
    /\ minv[1].key = mlast.key /\ ~minv[1].ok
    /\ minv[2].key = mlast.key /\ minv[2].ok

(***************************************************************************)
(* C19: the tree built from the metadata                                   *)
(***************************************************************************)

\* The members of the metadata at the workspace root.
RootMembers(meta) ==
    {i \in 1..Len(meta.members) : meta.members[i].path = meta.workspace_root}

\* C19: the root of the built tree is the manifest at the workspace root,
\* its members are the members of the metadata but for the one at the
\* workspace root, and its name is that member's name when there is one,
\* else the repository name of the remote when there is one, else the name
\* of the workspace root directory.
C19_TreeOfMetadata ==
    dpc = "done" =>
        /\ Absolute(dcwd, dtree.root.path) = Append(dmeta.workspace_root, FILE_NAME)
        /\ LET IsMember(m) == m.path # dmeta.workspace_root
               rest == SelectSeq(dmeta.members, IsMember)
           IN  /\ Len(dtree.members) = Len(rest)
               /\ \A k \in 1..Len(rest) :
                     /\ dtree.members[k].name = rest[k].name
                     /\ Absolute(dcwd, dtree.members[k].proj.path) =
                           Append(rest[k].path, FILE_NAME)
        /\ dtree.name =
              IF RootMembers(dmeta) # {}
              THEN dmeta.members[CHOOSE i \in RootMembers(dmeta) : TRUE].name
              ELSE IF dgit # <<>> THEN dgit
              ELSE PathName(dmeta.workspace_root)

(***************************************************************************)
(* C21                                                                     *)
(***************************************************************************)

\* The members sync was asked for: all of them without names, else the
\* members whose name is among the names.
SyncSelected ==
    {sman[i].name : i \in {j \in 1..Len(sman) :
        sargs.names = <<>> \/ sman[j].name \in SeqToSet(sargs.names)}}

\* The baseline one patch level up, as MAJOR.MINOR.PATCH.
AdvancedBaseline ==
    LET b == IF sargs.override.given THEN sargs.override
             ELSE IF srepo.base.given THEN srepo.base
             ELSE [major |-> 0, minor |-> 0, patch |-> 0]
    IN  ToString(b.major) \o "." \o ToString(b.minor) \o "." \o ToString(b.patch + 1)

BackendOf(text) == GetPath(text.tree, <<"build-system", "build-backend">>)

\* C21: after sync completes, the manifest on disk of every member of the
\* (optionally filtered) tree holds the root's build-backend under
\* build-system, whatever it held before, and its project.version is the
\* baseline one patch level up, alone or followed by "+" and metadata.
C21_SyncedMembers ==
    spc = "done" =>
        \A name \in SyncSelected :
            LET text == ManifestOf(sman, name)
            IN  /\ text.exists
                /\ BackendOf(text) = Scalar(RootBackend)
                /\ BackendOf(text) = BackendOf(sroot)
                /\ GetPath(text.tree, <<"project", "version">>) \in
                       {Scalar(AdvancedBaseline),
                        Scalar(AdvancedBaseline \o "+" \o Descriptor)}

\* Sync completed over a member that had no build-system table and a member
\* that declared another backend, in a repository with a stored baseline.
C21_Witness ==
    /\ spc = "done"
    /\ srepo.base.given
    /\ \E a, b \in SyncSelected :
          /\ BackendOf(ManifestOf(sman0, a)) = Missing
          /\ BackendOf(ManifestOf(sman0, b)) = Scalar(OtherBackend)
          /\ BackendOf(ManifestOf(sman, a)) = Scalar(RootBackend)
          /\ BackendOf(ManifestOf(sman, b)) = Scalar(RootBackend)

(***************************************************************************)
(* C22                                                                     *)
(***************************************************************************)

FailedTasks == {i \in 1..Len(tasks) : tasks[i].st = "failed"}

WorkspaceOf(key) == [workspace_root |-> <<key[1]>>]

\* C23: whatever the working directory was at any call, the value cached
\* for a directory, and the value a call for it returns, describes the
\* workspace that contains that directory.
C23_MetadataOfArgument ==
    /\ \A key \in MetaKeys : mcache[key] # NotCached => mcache[key] = WorkspaceOf(key)
    /\ mlast # NoMetaCall /\ ~mlast.raised => mlast.result = WorkspaceOf(mlast.key)

====
